---------------------------- MODULE Spec2Model ----------------------------
(***************************************************************************)
(* A model of the watermark application (src/watermark_gui.py): the        *)
(* position resolvers used by the preview and by the export, the text and  *)
(* image renderers' placement, the settings handlers, the image list, the  *)
(* output file naming and output paths, the batch export loop with the     *)
(* events handled inside it, the alpha values of the renders, the rotation *)
(* entry, the save call, manual placement by a click on the canvas, the    *)
(* export of one image with its failures, the draw calls of the text       *)
(* render, the preview drawing, compositing, and templates through the     *)
(* configuration file; and of the command line tool (src/watermark.py):    *)
(* parse_color, add_watermark and process_directory.                       *)
(*                                                                         *)
(* Conventions.                                                            *)
(*  - Python dicts (watermark_settings, output_settings, templates) are    *)
(*    functions from key strings to values; a key that the dict lacks is   *)
(*    not in the DOMAIN (DictGet models dict.get).                         *)
(*  - The nine anchor labels of the position grid (source line 300) are    *)
(*    written in English, in the order of that list: "top-left",           *)
(*    "top-center", "top-right", "middle-left", "center", "middle-right",  *)
(*    "bottom-left", "bottom-center", "bottom-right".                      *)
(*  - Python's // on integers is floor division, as \div is.               *)
(*  - The preview works on floats.  A preview scale is the dyadic rational *)
(*    s / ScaleDen, for which the float arithmetic of the source is exact, *)
(*    and every preview coordinate is kept in units of 1/ScaleDen pixel.   *)
(*  - File names are sequences of one-character strings.                   *)
(***************************************************************************)
EXTENDS Integers, Sequences, FiniteSets, TLC

VARIABLES
    images,               \* self.images: the ordered list of imported paths
    current_image_index,  \* self.current_image_index
    watermark_settings,   \* self.watermark_settings (a dict)
    templates,            \* self.templates: template name -> settings dict
    output_settings,      \* self.output_settings (a dict)
    pc,                   \* position of the batch: "idle", "running", "done", "aborted", "raised"
    loop_i,               \* number of loop iterations of batch_export begun so far
    success_count,        \* batch_export's local success_count
    error_count,          \* batch_export's local error_count
    progress_window,      \* TRUE while the progress Toplevel exists
    dispatching,          \* TRUE while batch_export is inside progress_window.update()
    bad_files,            \* the paths for which open, render or save fails
    trace,                \* history: what each loop iteration of batch_export did
    arg,                  \* the inputs of the operation under study
    ret                   \* the last operation applied and what it returned

vars == <<images, current_image_index, watermark_settings, templates,
          output_settings, pc, loop_i, success_count, error_count,
          progress_window, dispatching, bad_files, trace, arg, ret>>

listVars  == <<images, current_image_index>>
batchVars == <<pc, loop_i, success_count, error_count, progress_window,
               dispatching, bad_files, trace>>

-----------------------------------------------------------------------------
(* Bounds of the model *)

DimSpan == 1        \* target sizes: widths 60..60+DimSpan, heights 50..50+DimSpan
ContentSpan == 2    \* content sizes 15 + 27*k, k in 0..ContentSpan
ManualSpan == 2     \* stored manual coordinates 30*k, k in 0..ManualSpan
ScaleDen == 4       \* preview scales are s/ScaleDen, s in 1..ScaleDen
MaxNameLen == 3     \* file names of 1..MaxNameLen characters
MaxPaths == 3       \* distinct image paths 1..MaxPaths that can be imported
MaxFiles == 2       \* at most MaxFiles paths in one add_images call
MaxImages == 5      \* a batch holds 0..MaxImages images
MaxTemplates == 1   \* template names 1..MaxTemplates
MaxRotationInput == 400   \* integers typed into the rotation entry: -400..400
MaxColorLen == 7    \* color strings of 0..MaxColorLen characters
MaxEntries == 4     \* at most MaxEntries entries in the input directory

-----------------------------------------------------------------------------
(* Helpers *)

Max(a, b) == IF a >= b THEN a ELSE b
Min(a, b) == IF a <= b THEN a ELSE b

\* dict.get(key, default)
DictGet(d, key, default) == IF key \in DOMAIN d THEN d[key] ELSE default

\* int(n / d) for d > 0: Python's int() truncates toward zero
IntTrunc(n, d) == IF n >= 0 THEN n \div d ELSE -((-n) \div d)

Anchors == {"top-left", "top-center", "top-right",
            "middle-left", "center", "middle-right",
            "bottom-left", "bottom-center", "bottom-right"}

\* __init__: the settings after construction (no manual_x / manual_y key yet)
DefaultSettings ==
    [text |-> "watermark text",
     position |-> "bottom-right",
     opacity |-> 80,
     rotation |-> 0,
     font_color |-> [type |-> "tuple", rgb |-> <<255, 255, 255>>],
     shadow_enabled |-> FALSE,
     stroke_enabled |-> FALSE,
     image_watermark_path |-> "None",
     image_watermark_scale |-> 100,
     image_watermark_opacity |-> 80]

DefaultOutputSettings ==
    [output_dir |-> "",
     naming_rule |-> "original",
     prefix |-> <<"w", "m", "_">>,
     suffix |-> <<"_", "w", "a", "t", "e", "r", "m", "a", "r", "k", "e", "d">>,
     format |-> "JPEG",
     quality |-> 90]

-----------------------------------------------------------------------------
(* Position resolvers *)

Margin == 20

calculate_actual_position_NoMargin(position, width, height, text_width, text_height) ==
    LET margin == Margin IN
    IF position = "top-left" THEN <<margin, margin>>
    ELSE IF position = "top-center" THEN <<(width - text_width) \div 2, margin>>
    ELSE IF position = "top-right" THEN <<width - text_width, margin>>
    ELSE IF position = "middle-left" THEN <<margin, (height - text_height) \div 2>>
    ELSE IF position = "center"
        THEN <<(width - text_width) \div 2, (height - text_height) \div 2>>
    ELSE IF position = "middle-right"
        THEN <<width - text_width, (height - text_height) \div 2>>
    ELSE IF position = "bottom-left" THEN <<margin, height - text_height - margin>>
    ELSE IF position = "bottom-center"
        THEN <<(width - text_width) \div 2, height - text_height - margin>>
    ELSE <<width - text_width, height - text_height - margin>>

\* calculate_actual_position: the export's resolver (integers, scale 1)
calculate_actual_position(position, width, height, text_width, text_height) ==
    LET margin == Margin IN
    IF position = "top-left" THEN <<margin, margin>>
    ELSE IF position = "top-center" THEN <<(width - text_width) \div 2, margin>>
    ELSE IF position = "top-right" THEN <<width - text_width - margin, margin>>
    ELSE IF position = "middle-left" THEN <<margin, (height - text_height) \div 2>>
    ELSE IF position = "center"
        THEN <<(width - text_width) \div 2, (height - text_height) \div 2>>
    ELSE IF position = "middle-right"
        THEN <<width - text_width - margin, (height - text_height) \div 2>>
    ELSE IF position = "bottom-left" THEN <<margin, height - text_height - margin>>
    ELSE IF position = "bottom-center"
        THEN <<(width - text_width) \div 2, height - text_height - margin>>
    ELSE <<width - text_width - margin, height - text_height - margin>>

\* The letterbox offset of calculate_watermark_position, in 1/ScaleDen pixels:
\* x_offset = (canvas_width - width * scale) // 2, a float floor division
LetterboxOffset(width, height, s, canvas_width, canvas_height) ==
    <<ScaleDen * ((canvas_width * ScaleDen - width * s) \div (2 * ScaleDen)),
      ScaleDen * ((canvas_height * ScaleDen - height * s) \div (2 * ScaleDen))>>

\* calculate_watermark_position: the preview's resolver, scale = s/ScaleDen;
\* the result is in 1/ScaleDen pixels.  It has no branch for 'manual'.
calculate_watermark_position(position, width, height, s, canvas_width, canvas_height) ==
    LET margin == Margin * s
        half_w == ScaleDen * ((width * s) \div (2 * ScaleDen))   \* width * scale // 2
        half_h == ScaleDen * ((height * s) \div (2 * ScaleDen))  \* height * scale // 2
        right  == width * s - margin
        bottom == height * s - margin
        xy == IF position = "top-left" THEN <<margin, margin>>
              ELSE IF position = "top-center" THEN <<half_w, margin>>
              ELSE IF position = "top-right" THEN <<right, margin>>
              ELSE IF position = "middle-left" THEN <<margin, half_h>>
              ELSE IF position = "center" THEN <<half_w, half_h>>
              ELSE IF position = "middle-right" THEN <<right, half_h>>
              ELSE IF position = "bottom-left" THEN <<margin, bottom>>
              ELSE IF position = "bottom-center" THEN <<half_w, bottom>>
              ELSE <<right, bottom>>
        off == LetterboxOffset(width, height, s, canvas_width, canvas_height)
    IN  <<xy[1] + off[1], xy[2] + off[2]>>


-----------------------------------------------------------------------------
(* Renderers of the export path: where the watermark is put *)

ClampOrigin_NoUpper(x, limit) == Max(0, x)

\* x = max(0, min(x, width - new_width)), with limit = width - new_width
ClampOrigin(x, limit) == Max(0, Min(x, limit))

\* add_text_watermark: the origin (x, y) at which the main text is drawn on a
\* layer of size width x height; text_width x text_height is the bounding box
\* that the font metrics give for the text.
add_text_watermark(settings, width, height, text_width, text_height) ==
    LET xy == IF settings["position"] = "manual"
              THEN <<DictGet(settings, "manual_x", width - text_width - 20),
                     DictGet(settings, "manual_y", height - text_height - 20)>>
              ELSE calculate_actual_position(settings["position"], width, height,
                                             text_width, text_height)
    IN  [x |-> xy[1], y |-> xy[2]]

\* add_image_watermark on a layer of size width x height with a watermark file
\* of wm_width x wm_height pixels.  outcome: "skipped" (no path set, early
\* return), "raised" (Image.resize rejects a size below 1 and the handler
\* re-raises) or "pasted"; (x0, y0) is the resolved origin before the clamp and
\* (x, y) the paste origin.
add_image_watermark(settings, width, height, wm_width, wm_height) ==
    LET pct == settings["image_watermark_scale"]      \* scale = pct / 100.0
        new_width  == IntTrunc(wm_width * pct, 100)
        new_height == IntTrunc(wm_height * pct, 100)
        xy == IF settings["position"] = "manual"
              THEN <<DictGet(settings, "manual_x", width - new_width - 20),
                     DictGet(settings, "manual_y", height - new_height - 20)>>
              ELSE calculate_actual_position(settings["position"], width, height,
                                             new_width, new_height)
    IN  IF settings["image_watermark_path"] = "None"
        THEN [outcome |-> "skipped"]
        ELSE IF new_width < 1 \/ new_height < 1
        THEN [outcome |-> "raised"]
        ELSE [outcome |-> "pasted",
              new_width |-> new_width, new_height |-> new_height,
              x0 |-> xy[1], y0 |-> xy[2],
              x |-> ClampOrigin(xy[1], width - new_width),
              y |-> ClampOrigin(xy[2], height - new_height)]

-----------------------------------------------------------------------------
(* SpecPos: the resolvers and renderers applied to bounded inputs *)

TargetWidths  == {1000} \cup (60 .. 60 + DimSpan)
TargetHeights == {800} \cup (50 .. 50 + DimSpan)
ContentWidths  == {100} \cup {15 + 27 * k : k \in 0 .. ContentSpan}
ContentHeights == {40} \cup {15 + 27 * k : k \in 0 .. ContentSpan}
ManualCoords == {30 * k : k \in 0 .. ManualSpan}
ScalePercents == {50, 100, 200}
Canvases == {<<1200, 800>>, <<701, 533>>}

\* The settings a render can find: an anchor (or a label that is none of the
\* nine), or 'manual' with the pair stored by on_canvas_click
PosSettings ==
    LET base == {[DefaultSettings EXCEPT !["position"] = p,
                                         !["image_watermark_scale"] = pct,
                                         !["image_watermark_path"] = path] :
                    p \in Anchors \cup {"other"}, pct \in ScalePercents,
                    path \in {"None", "wm.png"}}
        man  == {("manual_x" :> mx) @@ ("manual_y" :> my) @@
                 [DefaultSettings EXCEPT !["position"] = "manual",
                                         !["image_watermark_scale"] = pct,
                                         !["image_watermark_path"] = path] :
                    mx \in ManualCoords, my \in ManualCoords,
                    pct \in ScalePercents, path \in {"None", "wm.png"}}
    IN  base \cup man

Idle ==
    /\ images = <<>>
    /\ current_image_index = -1
    /\ pc = "idle"
    /\ loop_i = 0
    /\ success_count = 0
    /\ error_count = 0
    /\ progress_window = FALSE
    /\ dispatching = FALSE
    /\ bad_files = {}
    /\ trace = <<>>

PosInit ==
    /\ Idle
    /\ watermark_settings \in PosSettings
    /\ templates = <<>>
    /\ output_settings = DefaultOutputSettings
    /\ arg \in [width : TargetWidths, height : TargetHeights,
                cw : ContentWidths, ch : ContentHeights]
    /\ ret = [op |-> "none"]

PosFrame == UNCHANGED <<listVars, batchVars, watermark_settings, templates,
                        output_settings, arg>>

ResolveActual ==
    /\ ret' = [op |-> "calculate_actual_position",
               pos |-> calculate_actual_position(watermark_settings["position"],
                           arg.width, arg.height, arg.cw, arg.ch)]
    /\ PosFrame

ResolvePreview ==
    /\ \E s \in 1 .. ScaleDen, canvas \in Canvases :
          ret' = [op |-> "calculate_watermark_position",
                  s |-> s, canvas |-> canvas,
                  pos |-> calculate_watermark_position(
                              watermark_settings["position"],
                              arg.width, arg.height, s, canvas[1], canvas[2])]
    /\ PosFrame

RenderText ==
    /\ ret' = [op |-> "add_text_watermark",
               at |-> add_text_watermark(watermark_settings, arg.width,
                                         arg.height, arg.cw, arg.ch)]
    /\ PosFrame

RenderImage ==
    /\ ret' = [op |-> "add_image_watermark",
               res |-> add_image_watermark(watermark_settings, arg.width,
                                           arg.height, arg.cw, arg.ch)]
    /\ PosFrame

PosNext == ResolveActual \/ ResolvePreview \/ RenderText \/ RenderImage

SpecPos == PosInit /\ [][PosNext]_vars

-----------------------------------------------------------------------------
(* Claims about the resolvers and the renderers' placement (SpecPos) *)

LeftColumn   == {"top-left", "middle-left", "bottom-left"}
CenterColumn == {"top-center", "center", "bottom-center"}
TopRow       == {"top-left", "top-center", "top-right"}
MiddleRow    == {"middle-left", "center", "middle-right"}

\* C1: calculate_actual_position returns the closed-form top-left coordinate
\* with margin 20 for each of the nine anchors: x is 20 in the left column,
\* the integer half of W - cw in the center column and W - cw - 20 in the
\* right column; y is 20 in the top row, the integer half of H - ch in the
\* middle row and H - ch - 20 in the bottom row.  A position that is none of
\* the other eight names is resolved as bottom-right.
C1_AnchorFormulas ==
    ret.op = "calculate_actual_position" =>
        LET p == watermark_settings["position"]
            x == ret.pos[1]
            y == ret.pos[2]
        IN  /\ p \in LeftColumn => x = 20
            /\ p \in CenterColumn =>
                   /\ 2 * x <= arg.width - arg.cw
                   /\ arg.width - arg.cw <= 2 * x + 1
            /\ p \notin LeftColumn \cup CenterColumn => x + arg.cw + 20 = arg.width
            /\ p \in TopRow => y = 20
            /\ p \in MiddleRow =>
                   /\ 2 * y <= arg.height - arg.ch
                   /\ arg.height - arg.ch <= 2 * y + 1
            /\ p \notin TopRow \cup MiddleRow => y + arg.ch + 20 = arg.height

\* C1 witness: bottom-right of a 100x40 content on a 1000x800 target is (880,740)
C1_Witness ==
    /\ ret.op = "calculate_actual_position"
    /\ watermark_settings["position"] = "bottom-right"
    /\ arg = [width |-> 1000, height |-> 800, cw |-> 100, ch |-> 40]
    /\ ret.pos = <<880, 740>>

\* C2: for every named anchor the position the preview computes, with the
\* letterbox offset removed, is the export's top-left coordinate at that scale
\* (both sides in 1/ScaleDen pixels).
C2_PreviewMatchesExport ==
    (ret.op = "calculate_watermark_position"
        /\ watermark_settings["position"] \in Anchors) =>
        LET off == LetterboxOffset(arg.width, arg.height, ret.s,
                                   ret.canvas[1], ret.canvas[2])
            exported == calculate_actual_position(watermark_settings["position"],
                            arg.width, arg.height, arg.cw, arg.ch)
        IN  /\ ret.pos[1] - off[1] = exported[1] * ret.s
            /\ ret.pos[2] - off[2] = exported[2] * ret.s

\* C3: with position 'manual' the resolved coordinate is the stored
\* (manual_x, manual_y) times the scale, with no margin: in the preview
\* (1/ScaleDen pixels, letterbox offset removed) and in the export (scale 1,
\* before any clamp).
C3_ManualScaled ==
    watermark_settings["position"] = "manual" =>
        LET mx == watermark_settings["manual_x"]
            my == watermark_settings["manual_y"]
        IN  /\ ret.op = "calculate_watermark_position" =>
                 LET off == LetterboxOffset(arg.width, arg.height, ret.s,
                                            ret.canvas[1], ret.canvas[2])
                 IN  /\ ret.pos[1] - off[1] = mx * ret.s
                     /\ ret.pos[2] - off[2] = my * ret.s
            /\ ret.op = "add_text_watermark" => ret.at = [x |-> mx, y |-> my]
            /\ (ret.op = "add_image_watermark" /\ ret.res.outcome = "pasted") =>
                 /\ ret.res.x0 = mx
                 /\ ret.res.y0 = my

\* C7 as claimed: the pasted watermark never extends past the target.
C7_PasteInsideTarget ==
    (ret.op = "add_image_watermark" /\ ret.res.outcome = "pasted") =>
        /\ 0 <= ret.res.x
        /\ ret.res.x + ret.res.new_width <= arg.width
        /\ 0 <= ret.res.y
        /\ ret.res.y + ret.res.new_height <= arg.height

\* C7 (amended): the paste origin is never negative; along an axis on which the
\* scaled watermark is not larger than the target it lies within the target,
\* and along an axis on which it is larger the origin is 0 (the watermark then
\* extends past the far edge).
C7_PasteClamped ==
    (ret.op = "add_image_watermark" /\ ret.res.outcome = "pasted") =>
        LET r == ret.res IN
        /\ 0 <= r.x
        /\ 0 <= r.y
        /\ r.new_width <= arg.width => r.x + r.new_width <= arg.width
        /\ r.new_width > arg.width => r.x = 0
        /\ r.new_height <= arg.height => r.y + r.new_height <= arg.height
        /\ r.new_height > arg.height => r.y = 0

\* C7 witness: a watermark that fits, resolved past the right edge and
\* brought back by the clamp
C7_Witness ==
    /\ ret.op = "add_image_watermark"
    /\ ret.res.outcome = "pasted"
    /\ ret.res.new_width <= arg.width
    /\ ret.res.x0 + ret.res.new_width > arg.width
    /\ ret.res.x + ret.res.new_width = arg.width

\* C8: the origin at which add_text_watermark draws the main text satisfies
\* 0 <= x <= W - text_width and 0 <= y <= H - text_height.
C8_TextClamped ==
    ret.op = "add_text_watermark" =>
        /\ 0 <= ret.at.x
        /\ ret.at.x <= arg.width - arg.cw
        /\ 0 <= ret.at.y
        /\ ret.at.y <= arg.height - arg.ch

-----------------------------------------------------------------------------
(* Output file naming *)

\* os.path.splitext on a file name without directory separators: the
\* extension starts at the last dot, unless only dots precede that dot
splitext(p) ==
    LET dots == {k \in 1 .. Len(p) : p[k] = "."}
        dotIndex == IF dots = {} THEN 0
                    ELSE CHOOSE k \in dots : \A j \in dots : j <= k
    IN  IF dotIndex > 0 /\ \E k \in 1 .. dotIndex - 1 : p[k] # "."
        THEN <<SubSeq(p, 1, dotIndex - 1), SubSeq(p, dotIndex, Len(p))>>
        ELSE <<p, <<>>>>

generate_output_filename_KeepExt(settings, original_filename) ==
    LET name == splitext(original_filename)[1]
        ext  == splitext(original_filename)[2]
    IN  IF settings["naming_rule"] = "prefix" THEN settings["prefix"] \o name \o ext
        ELSE IF settings["naming_rule"] = "suffix"
            THEN name \o settings["suffix"] \o ext
        ELSE name \o ext

\* generate_output_filename, reading self.output_settings
generate_output_filename(settings, original_filename) ==
    LET name == splitext(original_filename)[1]
        ext  == IF settings["format"] = "JPEG" THEN <<".", "j", "p", "g">>
                ELSE IF settings["format"] = "PNG" THEN <<".", "p", "n", "g">>
                ELSE splitext(original_filename)[2]
    IN  IF settings["naming_rule"] = "prefix" THEN settings["prefix"] \o name \o ext
        ELSE IF settings["naming_rule"] = "suffix"
            THEN name \o settings["suffix"] \o ext
        ELSE name \o ext

-----------------------------------------------------------------------------
(* SpecName: generate_output_filename applied to bounded inputs *)

NameChars == {"a", "B", "."}
PhotoJPG  == <<"p", "h", "o", "t", "o", ".", "J", "P", "G">>
FileNames ==
    {PhotoJPG} \cup UNION {[1 .. n -> NameChars] : n \in 1 .. MaxNameLen}

\* format and naming_rule as the export dialog sets them, and a format that
\* only a hand-edited configuration file can hold
NameSettings ==
    {[DefaultOutputSettings EXCEPT !["format"] = f, !["naming_rule"] = r,
                                   !["prefix"] = pre, !["suffix"] = suf] :
        f \in {"JPEG", "PNG", "BMP"},
        r \in {"original", "prefix", "suffix"},
        pre \in {<<"w", "m", "_">>, <<>>},
        suf \in {<<"_", "d", "o", "n", "e">>, DefaultOutputSettings["suffix"]}}

NameInit ==
    /\ Idle
    /\ watermark_settings = DefaultSettings
    /\ templates = <<>>
    /\ output_settings \in NameSettings
    /\ arg \in [original_filename : FileNames]
    /\ ret = [op |-> "none"]

GenerateName ==
    /\ ret' = [op |-> "generate_output_filename",
               name |-> generate_output_filename(output_settings,
                                                 arg.original_filename)]
    /\ UNCHANGED <<listVars, batchVars, watermark_settings, templates,
                   output_settings, arg>>

NameNext == GenerateName

SpecName == NameInit /\ [][NameNext]_vars

\* f splits after its first k characters into a stem and its last extension:
\* the rest is empty, or is a dot followed by no other dot, with a character
\* other than a dot somewhere in the stem; and the rest is empty only if f has
\* no dot that follows such a character.
IsStemSplit(f, k) ==
    LET rest == SubSeq(f, k + 1, Len(f)) IN
    /\ k \in 0 .. Len(f)
    /\ \/ /\ rest = <<>>
          /\ ~ \E d \in 1 .. Len(f) : f[d] = "." /\ \E j \in 1 .. d - 1 : f[j] # "."
       \/ /\ rest # <<>>
          /\ rest[1] = "."
          /\ \A j \in 2 .. Len(rest) : rest[j] # "."
          /\ \E j \in 1 .. k : f[j] # "."

\* C6: with output format JPEG or PNG, generate_output_filename returns
\* prefix+stem+ext (prefix rule), stem+suffix+ext (suffix rule) or stem+ext
\* (keep-original rule), where stem is the source name without its last
\* extension and ext is ".jpg" for JPEG and ".png" for PNG whatever the source
\* extension was.
C6_OutputName ==
    (ret.op = "generate_output_filename"
        /\ output_settings["format"] \in {"JPEG", "PNG"}) =>
        LET f == arg.original_filename
            forced == IF output_settings["format"] = "JPEG"
                      THEN <<".", "j", "p", "g">> ELSE <<".", "p", "n", "g">>
            pre == IF output_settings["naming_rule"] = "prefix"
                   THEN output_settings["prefix"] ELSE <<>>
            suf == IF output_settings["naming_rule"] = "suffix"
                   THEN output_settings["suffix"] ELSE <<>>
        IN  \E k \in 0 .. Len(f) :
                /\ IsStemSplit(f, k)
                /\ ret.name = pre \o SubSeq(f, 1, k) \o suf \o forced

\* C6 witness: photo.JPG with prefix wm_ and format PNG gives wm_photo.png
C6_Witness ==
    /\ ret.op = "generate_output_filename"
    /\ arg.original_filename = PhotoJPG
    /\ output_settings["naming_rule"] = "prefix"
    /\ output_settings["prefix"] = <<"w", "m", "_">>
    /\ output_settings["format"] = "PNG"
    /\ ret.name = <<"w", "m", "_", "p", "h", "o", "t", "o", ".", "p", "n", "g">>

-----------------------------------------------------------------------------
(* The image list: add_images, clear_images, on_image_select (SpecList) *)

Paths == 1 .. MaxPaths
Range(q) == {q[k] : k \in 1 .. Len(q)}

AppendNew_Always(imgs, file) == Append(imgs, file)

\* the body of the loop of add_images: if file not in self.images: append
AppendNew(imgs, file) ==
    IF file \in Range(imgs) THEN imgs ELSE Append(imgs, file)

\* the loop of add_images over files, from the list imgs
RECURSIVE add_images_loop(_, _)
add_images_loop(imgs, files) ==
    IF files = <<>> THEN imgs
    ELSE add_images_loop(AppendNew(imgs, Head(files)), Tail(files))

\* add_images(files).  new_count is the growth of the list; when the list held
\* nothing before (len(self.images) == new_count) item 0 is selected and
\* on_image_select makes it the current image.
add_images(files) ==
    LET after == add_images_loop(images, files)
        new_count == Len(after) - Len(images)
    IN  /\ images' = after
        /\ current_image_index' =
              IF new_count > 0 /\ Len(after) = new_count THEN 0
              ELSE current_image_index
        /\ ret' = [op |-> "add_images", files |-> files, before |-> images]

clear_images_KeepIndex(confirmed) ==
    /\ images # <<>>
    /\ IF confirmed
       THEN /\ images' = <<>>
            /\ UNCHANGED current_image_index
       ELSE UNCHANGED <<images, current_image_index>>
    /\ ret' = [op |-> "clear_images", confirmed |-> confirmed, before |-> images]

\* clear_images: nothing without images; otherwise the user answers the
\* confirmation dialog
clear_images(confirmed) ==
    /\ images # <<>>
    /\ IF confirmed
       THEN /\ images' = <<>>
            /\ current_image_index' = -1
       ELSE UNCHANGED <<images, current_image_index>>
    /\ ret' = [op |-> "clear_images", confirmed |-> confirmed, before |-> images]

\* on_image_select with item k of the listbox selected (the listbox holds one
\* item per image)
on_image_select(k) ==
    /\ k \in 0 .. Len(images) - 1
    /\ current_image_index' = k
    /\ UNCHANGED images
    /\ ret' = [op |-> "on_image_select", k |-> k]

ListInit ==
    /\ Idle
    /\ watermark_settings = DefaultSettings
    /\ templates = <<>>
    /\ output_settings = DefaultOutputSettings
    /\ arg = <<>>
    /\ ret = [op |-> "none"]

ListFrame == UNCHANGED <<batchVars, watermark_settings, templates,
                         output_settings, arg>>

ListNext ==
    \/ \E n \in 1 .. MaxFiles : \E files \in [1 .. n -> Paths] :
          add_images(files) /\ ListFrame
    \/ \E confirmed \in BOOLEAN : clear_images(confirmed) /\ ListFrame
    \/ \E k \in 0 .. MaxPaths - 1 : on_image_select(k) /\ ListFrame

SpecList == ListInit /\ [][ListNext]_vars

\* position of the first occurrence of x in q
FirstIndex(q, x) == CHOOSE k \in 1 .. Len(q) : q[k] = x /\ \A j \in 1 .. k - 1 : q[j] # x

\* C10: the images list never holds a path twice, and add_images keeps the
\* paths that were there, in place, and appends the paths that were not, once
\* each and in the order given; a call that brings only paths already present
\* leaves the list unchanged.
C10_NoDuplicatesInOrder ==
    /\ \A a, b \in 1 .. Len(images) : images[a] = images[b] => a = b
    /\ ret.op = "add_images" =>
        LET n == Len(ret.before)
            added == SubSeq(images, n + 1, Len(images))
        IN  /\ Len(images) >= n
            /\ SubSeq(images, 1, n) = ret.before
            /\ Range(added) = Range(ret.files) \ Range(ret.before)
            /\ \A a, b \in 1 .. Len(added) :
                   a < b => FirstIndex(ret.files, added[a]) < FirstIndex(ret.files, added[b])
            /\ Range(ret.files) \subseteq Range(ret.before) => images = ret.before

\* C10 witness: a call with a path already present and then a new one: the
\* first is skipped and the second appended at the end
C10_Witness ==
    /\ ret.op = "add_images"
    /\ Len(ret.files) = 2
    /\ Len(ret.before) = 2
    /\ ret.files[1] = ret.before[1]
    /\ ret.files[2] \notin Range(ret.before)
    /\ images = Append(ret.before, ret.files[2])

-----------------------------------------------------------------------------
(* batch_export (Spec).  The loop is taken one iteration at a time.  Events  *)
(* are handled only inside progress_window.update(): once before the loop    *)
(* and once at the end of every iteration whose body did not raise;          *)
(* dispatching is TRUE while the loop stands in such a call.  The progress   *)
(* window holds the grab (grab_set), so while it exists the only event that  *)
(* reaches the application is the user closing it.  Destroying the grab      *)
(* window releases the grab: the events that follow in the same update()     *)
(* reach the main window, and its handlers run while the loop is suspended.  *)
(* Of these the model takes set_position and clear_images.  After the window *)
(* is gone status_label.config raises TclError in every later iteration,     *)
(* inside the try and before update(), so no later event is handled.         *)
(* trace holds one entry per iteration begun: the path and the outcome,      *)
(* "saved" (add_watermark_to_image returned True), "failed" (it returned     *)
(* False) or "raised" (an exception reached the except clause of the loop).  *)
(* arg holds the collection and the settings as they were when batch_export  *)
(* was called.                                                               *)

Init ==
    /\ \E n \in 0 .. MaxImages : images = [k \in 1 .. n |-> k]
    /\ current_image_index = IF images = <<>> THEN -1 ELSE 0
    /\ bad_files \in SUBSET Range(images)
    /\ output_settings \in {DefaultOutputSettings,
                            [DefaultOutputSettings EXCEPT !["output_dir"] = "out"]}
    /\ watermark_settings = DefaultSettings
    /\ templates = <<>>
    /\ pc = "idle"
    /\ loop_i = 0
    /\ success_count = 0
    /\ error_count = 0
    /\ progress_window = FALSE
    /\ dispatching = FALSE
    /\ trace = <<>>
    /\ arg = <<>>
    /\ ret = [op |-> "none"]

BatchFrame == UNCHANGED <<images, current_image_index, watermark_settings,
                          templates, output_settings, bad_files, arg>>

\* add_watermark_to_image(input_path, output_path): True once the output is
\* saved, False when anything inside its try raised
add_watermark_to_image(input_path) == input_path \notin bad_files

\* what batch_export is called on
BatchCall == [images |-> images,
              watermark_settings |-> watermark_settings,
              output_settings |-> output_settings]

batch_export_begin_NoDirCheck ==
    /\ pc \in {"idle", "done", "aborted"}
    /\ IF images = <<>>
       THEN /\ pc' = "aborted"
            /\ UNCHANGED <<progress_window, dispatching>>
       ELSE /\ pc' = "running"
            /\ progress_window' = TRUE
            /\ dispatching' = TRUE
    /\ loop_i' = 0
    /\ success_count' = 0
    /\ error_count' = 0
    /\ trace' = <<>>
    /\ arg' = BatchCall
    /\ ret' = [op |-> "batch_export_begin"]
    /\ UNCHANGED <<images, current_image_index, watermark_settings, templates,
                   output_settings, bad_files>>

\* batch_export up to the loop: the two guards, then the progress window and
\* the first progress_window.update()
batch_export_begin ==
    /\ pc \in {"idle", "done", "aborted"}
    /\ IF images = <<>> \/ output_settings["output_dir"] = ""
       THEN /\ pc' = "aborted"
            /\ UNCHANGED <<progress_window, dispatching>>
       ELSE /\ pc' = "running"
            /\ progress_window' = TRUE
            /\ dispatching' = TRUE
    /\ loop_i' = 0
    /\ success_count' = 0
    /\ error_count' = 0
    /\ trace' = <<>>
    /\ arg' = BatchCall
    /\ ret' = [op |-> "batch_export_begin"]
    /\ UNCHANGED <<images, current_image_index, watermark_settings, templates,
                   output_settings, bad_files>>

\* the user closes the progress window while progress_window.update() runs
close_progress_window ==
    /\ pc = "running"
    /\ dispatching
    /\ progress_window
    /\ progress_window' = FALSE
    /\ UNCHANGED <<pc, loop_i, success_count, error_count, dispatching, trace,
                   ret>>
    /\ BatchFrame

\* set_position(position): a position button of the main window
set_position(position) ==
    /\ watermark_settings' =
          [watermark_settings EXCEPT !["position"] = position]
    /\ ret' = [op |-> "set_position", position |-> position]

\* the main window takes events again while update() is still running
MainWindowReachable == pc = "running" /\ dispatching /\ ~progress_window

set_position_in_update(position) ==
    /\ MainWindowReachable
    /\ set_position(position)
    /\ UNCHANGED <<listVars, batchVars, templates, output_settings, arg>>

clear_images_in_update(confirmed) ==
    /\ MainWindowReachable
    /\ clear_images(confirmed)
    /\ UNCHANGED <<batchVars, watermark_settings, templates, output_settings,
                   arg>>

batch_iteration_Abort ==
    /\ pc = "running"
    /\ loop_i < Len(images)
    /\ LET image_path == images[loop_i + 1] IN
       IF ~progress_window \/ ~add_watermark_to_image(image_path)
       THEN /\ pc' = "aborted"
            /\ trace' = Append(trace, [path |-> image_path, outcome |-> "raised"])
            /\ UNCHANGED <<success_count, error_count>>
       ELSE /\ success_count' = success_count + 1
            /\ trace' = Append(trace, [path |-> image_path, outcome |-> "saved"])
            /\ UNCHANGED <<pc, error_count>>
    /\ loop_i' = loop_i + 1
    /\ dispatching' = progress_window
    /\ UNCHANGED <<progress_window, ret>>
    /\ BatchFrame

\* one iteration of the loop of batch_export, try and except included; the
\* iterator of enumerate(self.images) yields the item at index loop_i of the
\* list as it is now
batch_iteration ==
    /\ pc = "running"
    /\ loop_i < Len(images)
    /\ LET image_path == images[loop_i + 1] IN
       IF ~progress_window
       THEN \* status_label.config raises; except: error_count += 1
            /\ error_count' = error_count + 1
            /\ trace' = Append(trace, [path |-> image_path, outcome |-> "raised"])
            /\ UNCHANGED success_count
       ELSE IF add_watermark_to_image(image_path)
       THEN /\ success_count' = success_count + 1
            /\ trace' = Append(trace, [path |-> image_path, outcome |-> "saved"])
            /\ UNCHANGED error_count
       ELSE /\ error_count' = error_count + 1
            /\ trace' = Append(trace, [path |-> image_path, outcome |-> "failed"])
            /\ UNCHANGED success_count
    /\ loop_i' = loop_i + 1
    /\ dispatching' = progress_window
    /\ UNCHANGED <<pc, progress_window, ret>>
    /\ BatchFrame

\* after the loop (the iterator finds no item at index loop_i): the progress
\* window is destroyed and the counts are shown
batch_export_finish ==
    /\ pc = "running"
    /\ loop_i >= Len(images)
    /\ pc' = "done"
    /\ progress_window' = FALSE
    /\ dispatching' = FALSE
    /\ ret' = [op |-> "batch_export", success_count |-> success_count,
               error_count |-> error_count]
    /\ UNCHANGED <<loop_i, success_count, error_count, trace>>
    /\ BatchFrame

Next ==
    \/ batch_export_begin
    \/ close_progress_window
    \/ \E position \in {"top-left", "center"} : set_position_in_update(position)
    \/ \E confirmed \in BOOLEAN : clear_images_in_update(confirmed)
    \/ batch_iteration
    \/ batch_export_finish

Spec == Init /\ [][Next]_vars

\* C4: a failing image never aborts the batch.  Once the loop runs, the
\* iterations begun are the first loop_i positions of the list in order,
\* whatever their outcomes; the batch is aborted only before any image was
\* begun, and it is done only when no position of the list is left.
C4_FailureDoesNotAbort ==
    /\ pc \in {"running", "done"} =>
          /\ Len(trace) = loop_i
          /\ \A k \in 1 .. Min(loop_i, Len(images)) : trace[k].path = images[k]
    /\ pc = "aborted" => trace = <<>>
    /\ pc = "done" => loop_i >= Len(images)

\* C4 witness: a finished batch in which an image failed inside
\* add_watermark_to_image, another raised in the loop body, and images after
\* a failure were still begun and saved or counted
C4_Witness ==
    /\ pc = "done"
    /\ Len(images) = 5
    /\ \E a, b \in 1 .. Len(trace) :
          /\ a < b
          /\ trace[a].outcome = "failed"
          /\ trace[b].outcome = "saved"
    /\ \E a, b \in 1 .. Len(trace) :
          /\ a < b
          /\ trace[a].outcome = "raised"
          /\ trace[b].outcome = "raised"

\* C5: when batch_export finishes every image of the collection it was
\* called on has been counted exactly once: success_count + error_count is
\* the number of those images, success_count is the number of images whose
\* output was saved and error_count the number of the others, and the counts
\* shown are those.
C5_CountsPartitionImages ==
    pc = "done" =>
        /\ success_count + error_count = Len(arg.images)
        /\ success_count =
              Cardinality({k \in 1 .. Len(trace) : trace[k].outcome = "saved"})
        /\ error_count =
              Cardinality({k \in 1 .. Len(trace) : trace[k].outcome # "saved"})
        /\ {trace[k].path : k \in 1 .. Len(trace)} = Range(arg.images)
        /\ ret = [op |-> "batch_export", success_count |-> success_count,
                  error_count |-> error_count]

\* C11: batch_export aborts before any per-image work when it is called
\* with no images or with no output directory: no iteration is begun, nothing
\* is counted and no progress window is made; and it reaches the loop only
\* when it was called with at least one image and an output directory.
C11_AbortBeforeWork ==
    /\ pc = "aborted" =>
          /\ arg.images = <<>> \/ arg.output_settings["output_dir"] = ""
          /\ trace = <<>>
          /\ loop_i = 0
          /\ success_count = 0
          /\ error_count = 0
          /\ ~progress_window
          /\ ~dispatching
    /\ pc \in {"running", "done"} =>
          /\ arg.images # <<>>
          /\ arg.output_settings["output_dir"] # ""

\* C11 witness: batch_export called with two images and no output directory
C11_Witness ==
    /\ pc = "aborted"
    /\ ret.op = "batch_export_begin"
    /\ Len(images) = 2
    /\ output_settings["output_dir"] = ""

\* C12: batch_export takes the images one at a time, in the order of the
\* collection it was called on, each exactly once, and then is done: the
\* iterations begun are a prefix of that collection, and when the batch is
\* done they are the whole of it.
C12_EachImageOnceInOrder ==
    /\ pc \in {"running", "done"} =>
          /\ Len(trace) <= Len(arg.images)
          /\ \A k \in 1 .. Len(trace) : trace[k].path = arg.images[k]
    /\ pc = "done" => Len(trace) = Len(arg.images)

\* C20: while a batch runs, the watermark settings, the output settings and
\* the image list stay what they were when batch_export was called.
C20_SettingsFixedDuringBatch ==
    pc = "running" =>
        /\ watermark_settings = arg.watermark_settings
        /\ output_settings = arg.output_settings
        /\ images = arg.images

-----------------------------------------------------------------------------
(* The style handlers and the templates (SpecSettings).  A slider hands its  *)
(* value over as the text of a float; the model takes the value in halves    *)
(* (h stands for h/2), so that int(float(value)) has something to truncate.  *)

\* int(float(value)) for value = h/2
IntOfFloat(h) == IntTrunc(h, 2)

\* values the sliders hand over: 50.5 and 100 of the opacity slider (0..100),
\* 0 and 100 of the image opacity slider (0..100), 10 and 200 of the image
\* scale slider (10..200)
OpacityInputs      == {101, 200}
ImageOpacityInputs == {0, 200}
ImageScaleInputs   == {20, 400}

TemplateNames == 1 .. MaxTemplates

on_opacity_change(value) ==
    /\ watermark_settings' =
          [watermark_settings EXCEPT !["opacity"] = IntOfFloat(value)]
    /\ ret' = [op |-> "on_opacity_change"]
    /\ UNCHANGED templates

on_image_scale_change(value) ==
    /\ watermark_settings' =
          [watermark_settings EXCEPT !["image_watermark_scale"] = IntOfFloat(value)]
    /\ ret' = [op |-> "on_image_scale_change"]
    /\ UNCHANGED templates

on_image_opacity_change(value) ==
    /\ watermark_settings' =
          [watermark_settings EXCEPT !["image_watermark_opacity"] = IntOfFloat(value)]
    /\ ret' = [op |-> "on_image_opacity_change"]
    /\ UNCHANGED templates

\* save_template with the name typed into the dialog
save_template(name) ==
    /\ templates' = (name :> watermark_settings) @@ templates
    /\ ret' = [op |-> "save_template"]
    /\ UNCHANGED watermark_settings

\* load_template and its on_template_select with the template name selected
load_template(name) ==
    /\ name \in DOMAIN templates
    /\ watermark_settings' = templates[name]
    /\ ret' = [op |-> "load_template", name |-> name]
    /\ UNCHANGED templates

\* what add_text_watermark reads of the style when it renders
ReadByTextRender ==
    /\ ret' = [op |-> "add_text_watermark",
               opacity |-> watermark_settings["opacity"]]
    /\ UNCHANGED <<watermark_settings, templates>>

\* what add_image_watermark reads of the style when it renders
ReadByImageRender ==
    /\ ret' = [op |-> "add_image_watermark",
               opacity |-> watermark_settings["image_watermark_opacity"],
               scale |-> watermark_settings["image_watermark_scale"]]
    /\ UNCHANGED <<watermark_settings, templates>>

\* load_config at construction: no configuration file (no template), or a
\* file holding a template, here one whose opacity is 150: load_config takes
\* whatever the JSON file holds
SettingsInit ==
    /\ Idle
    /\ watermark_settings = DefaultSettings
    /\ templates \in {<<>>, (1 :> [DefaultSettings EXCEPT !["opacity"] = 150])}
    /\ output_settings = DefaultOutputSettings
    /\ arg = <<>>
    /\ ret = [op |-> "none"]

SettingsFrame == UNCHANGED <<listVars, batchVars, output_settings, arg>>

SettingsNext ==
    \/ \E v \in OpacityInputs : on_opacity_change(v) /\ SettingsFrame
    \/ \E v \in ImageScaleInputs : on_image_scale_change(v) /\ SettingsFrame
    \/ \E v \in ImageOpacityInputs : on_image_opacity_change(v) /\ SettingsFrame
    \/ \E name \in TemplateNames : save_template(name) /\ SettingsFrame
    \/ \E name \in TemplateNames : load_template(name) /\ SettingsFrame
    \/ ReadByTextRender /\ SettingsFrame
    \/ ReadByImageRender /\ SettingsFrame

SpecSettings == SettingsInit /\ [][SettingsNext]_vars

\* C9: the opacity and the image opacity that a render reads are in [0,100]
\* and the image scale it reads is positive, after any sequence of the three
\* slider handlers and load_template.
C9_StyleValuesInRange ==
    /\ ret.op = "add_text_watermark" => ret.opacity \in 0 .. 100
    /\ ret.op = "add_image_watermark" =>
          /\ ret.opacity \in 0 .. 100
          /\ ret.scale > 0

-----------------------------------------------------------------------------
(* The alpha values of the export renders (SpecAlpha).  The opacity sliders  *)
(* run from 0 to 100 and the handlers store integers; p is an alpha value of *)
(* the scaled watermark image, 0..255.                                       *)

\* add_text_watermark: opacity = int(255 * settings['opacity'] / 100), the
\* alpha of the main text's fill colour
text_alpha(settings) == IntTrunc(255 * settings["opacity"], 100)

image_alpha_Replace(p, opacity) ==
    IF opacity < 100 THEN (255 * opacity) \div 100 ELSE p

\* add_image_watermark: if opacity < 100 the alpha band goes through
\* point(lambda p: p * opacity // 100); otherwise it is left as it is
image_alpha(p, opacity) ==
    IF opacity < 100 THEN (p * opacity) \div 100 ELSE p

AlphaSettings ==
    {[DefaultSettings EXCEPT !["opacity"] = o, !["image_watermark_opacity"] = o] :
        o \in 0 .. 100}

\* arg.p: an alpha value of the scaled watermark image
AlphaInit ==
    /\ Idle
    /\ watermark_settings \in AlphaSettings
    /\ templates = <<>>
    /\ output_settings = DefaultOutputSettings
    /\ arg \in [p : 0 .. 255]
    /\ ret = [op |-> "none"]

AlphaFrame == UNCHANGED <<listVars, batchVars, watermark_settings, templates,
                          output_settings, arg>>

TextAlpha ==
    /\ ret' = [op |-> "text_alpha", alpha |-> text_alpha(watermark_settings)]
    /\ AlphaFrame

ImageAlpha ==
    /\ ret' = [op |-> "image_alpha", p |-> arg.p,
               alpha |-> image_alpha(arg.p, watermark_settings["image_watermark_opacity"])]
    /\ AlphaFrame

AlphaNext == TextAlpha \/ ImageAlpha

SpecAlpha == AlphaInit /\ [][AlphaNext]_vars

\* C13: the opacity law of the image watermark.  With opacity 100 an alpha
\* value is unchanged, with opacity 0 it becomes 0, and for every opacity in
\* 0..100 the new value is the floor of p * opacity / 100: an alpha value,
\* never above the old one, and 0 when the old one is 0.
C13_ImageOpacityLaw ==
    ret.op = "image_alpha" =>
        LET opacity == watermark_settings["image_watermark_opacity"] IN
        /\ ret.alpha \in 0 .. 255
        /\ opacity = 100 => ret.alpha = ret.p
        /\ opacity = 0 => ret.alpha = 0
        /\ 100 * ret.alpha <= ret.p * opacity
        /\ ret.p * opacity < 100 * (ret.alpha + 1)
        /\ ret.alpha <= ret.p
        /\ ret.p = 0 => ret.alpha = 0

\* C13 witness: opacity 50 halves the alpha value 201, rounding down
C13_Witness ==
    /\ ret.op = "image_alpha"
    /\ watermark_settings["image_watermark_opacity"] = 50
    /\ ret.p = 201
    /\ ret.alpha = 100

\* round(n / d) as Python rounds, halves to the even neighbour (n >= 0, d > 0)
PyRound(n, d) ==
    LET q == n \div d
        r == n % d
    IN  IF 2 * r < d THEN q
        ELSE IF 2 * r > d THEN q + 1
        ELSE IF q % 2 = 0 THEN q ELSE q + 1

\* C14: for every opacity in 0..100 the alpha of the main text is
\* round(255 * opacity / 100), the nearest integer, and lies in 0..255.
C14_TextAlphaRounded ==
    ret.op = "text_alpha" =>
        /\ ret.alpha \in 0 .. 255
        /\ ret.alpha = PyRound(255 * watermark_settings["opacity"], 100)
        /\ watermark_settings["opacity"] = 50 => ret.alpha = 128

-----------------------------------------------------------------------------
(* The rotation entry and the text export (SpecRotation).  The entry's text  *)
(* is taken as what int() makes of it: an integer, or ValueError.            *)

\* the texts typed into the rotation entry: decimal integers, and a text
\* that int() rejects ("", "abc", "12.5")
RotationTexts ==
    {[is_int |-> TRUE, value |-> n] : n \in -MaxRotationInput .. MaxRotationInput}
    \cup {[is_int |-> FALSE]}

on_rotation_change_NoMod(text) ==
    IF text.is_int
    THEN /\ watermark_settings' =
               [watermark_settings EXCEPT !["rotation"] = text.value]
         /\ ret' = [op |-> "on_rotation_change", is_int |-> TRUE,
                    value |-> text.value]
    ELSE /\ UNCHANGED watermark_settings
         /\ ret' = [op |-> "on_rotation_change", is_int |-> FALSE,
                    before |-> watermark_settings["rotation"]]

\* on_rotation_change: rotation = int(text); settings['rotation'] =
\* rotation % 360; except ValueError: pass
on_rotation_change(text) ==
    IF text.is_int
    THEN /\ watermark_settings' =
               [watermark_settings EXCEPT !["rotation"] = text.value % 360]
         /\ ret' = [op |-> "on_rotation_change", is_int |-> TRUE,
                    value |-> text.value]
    ELSE /\ UNCHANGED watermark_settings
         /\ ret' = [op |-> "on_rotation_change", is_int |-> FALSE,
                    before |-> watermark_settings["rotation"]]

\* the text layer add_text_watermark draws on a width x height image for a
\* text box of text_width x text_height: where the main text is drawn, with
\* which alpha, and turned by which angle.  draw.text draws upright and the
\* layer is never rotated; settings['rotation'] is not read.
text_layer(settings, width, height, text_width, text_height) ==
    [at    |-> add_text_watermark(settings, width, height, text_width, text_height),
     alpha |-> text_alpha(settings),
     angle |-> 0]

RotationInit ==
    /\ Idle
    /\ watermark_settings = DefaultSettings
    /\ templates = <<>>
    /\ output_settings = DefaultOutputSettings
    /\ arg \in [width : {1000}, height : {800}, cw : {100}, ch : {40}]
    /\ ret = [op |-> "none"]

RotationFrame == UNCHANGED <<listVars, batchVars, templates, output_settings,
                             arg>>

ExportText ==
    /\ ret' = [op |-> "export_text",
               layer |-> text_layer(watermark_settings, arg.width, arg.height,
                                    arg.cw, arg.ch)]
    /\ UNCHANGED watermark_settings
    /\ RotationFrame

RotationNext ==
    \/ \E text \in RotationTexts : on_rotation_change(text) /\ RotationFrame
    \/ ExportText

SpecRotation == RotationInit /\ [][RotationNext]_vars

\* C16: the stored rotation is always in 0..359.  After on_rotation_change
\* with an integer it is that integer modulo 360, so 360 (and any multiple of
\* 360) stores 0 and the text export is the one of rotation 0; with a text
\* that is not an integer the stored rotation is what it was.
C16_RotationNormalized ==
    LET rotation == watermark_settings["rotation"] IN
    /\ rotation \in 0 .. 359
    /\ ret.op = "on_rotation_change" /\ ret.is_int =>
          /\ \E k \in -2 .. 2 : ret.value = rotation + 360 * k
          /\ ret.value \in {-360, 0, 360} =>
                /\ rotation = 0
                /\ text_layer(watermark_settings, arg.width, arg.height, arg.cw, arg.ch)
                      = text_layer(DefaultSettings, arg.width, arg.height, arg.cw, arg.ch)
    /\ ret.op = "on_rotation_change" /\ ~ret.is_int => rotation = ret.before

\* C16 witness: -90 typed into the entry stores 270
C16_Witness ==
    /\ ret.op = "on_rotation_change"
    /\ ret.is_int
    /\ ret.value = -90
    /\ watermark_settings["rotation"] = 270

\* C17: the text export applies the stored rotation: the layer is turned by
\* it, so with a rotation other than 0 the layer differs from the one
\* exported with rotation 0.
C17_TextRotationApplied ==
    ret.op = "export_text" =>
        /\ ret.layer.angle = watermark_settings["rotation"]
        /\ watermark_settings["rotation"] # 0 =>
              ret.layer # text_layer([watermark_settings EXCEPT !["rotation"] = 0],
                                     arg.width, arg.height, arg.cw, arg.ch)

-----------------------------------------------------------------------------
(* The save at the end of add_watermark_to_image (SpecSave).  The composite  *)
(* of two RGBA images is an RGBA image; the call is described by the mode of *)
(* the image saved, the format name passed and the keyword arguments.        *)

save_call_KeepAlpha(settings) ==
    IF settings["format"] = "JPEG"
    THEN [mode |-> "RGBA", format |-> "JPEG", quality |-> settings["quality"]]
    ELSE [mode |-> "RGBA", format |-> "PNG"]

\* if format == 'JPEG': convert('RGB'), save(path, 'JPEG', quality=...);
\* else: save(path, 'PNG')
save_call(settings) ==
    IF settings["format"] = "JPEG"
    THEN [mode |-> "RGB", format |-> "JPEG", quality |-> settings["quality"]]
    ELSE [mode |-> "RGBA", format |-> "PNG"]

\* the export settings dialog: format JPEG or PNG, quality scale 0..100
SaveSettings ==
    {[DefaultOutputSettings EXCEPT !["format"] = f, !["quality"] = q] :
        f \in {"JPEG", "PNG"}, q \in 0 .. 100}

SaveInit ==
    /\ Idle
    /\ watermark_settings = DefaultSettings
    /\ templates = <<>>
    /\ output_settings \in SaveSettings
    /\ arg = <<>>
    /\ ret = [op |-> "none"]

SaveOutput ==
    /\ ret' = [op |-> "save", call |-> save_call(output_settings)]
    /\ UNCHANGED <<listVars, batchVars, watermark_settings, templates,
                   output_settings, arg>>

SaveNext == SaveOutput

SpecSave == SaveInit /\ [][SaveNext]_vars

\* C18: for JPEG the image saved is the composite converted to RGB and the
\* quality setting is passed; for PNG the composite is saved as it is, with
\* its alpha channel, and no quality is passed.
C18_SaveByFormat ==
    ret.op = "save" =>
        /\ output_settings["format"] = "JPEG" =>
              /\ ret.call.mode = "RGB"
              /\ ret.call.format = "JPEG"
              /\ "quality" \in DOMAIN ret.call
              /\ ret.call.quality = output_settings["quality"]
        /\ output_settings["format"] = "PNG" =>
              /\ ret.call.mode = "RGBA"
              /\ ret.call.format = "PNG"
              /\ "quality" \notin DOMAIN ret.call

\* C18 witness: a PNG save, with the quality setting at 75
C18_Witness ==
    /\ ret.op = "save"
    /\ output_settings["format"] = "PNG"
    /\ output_settings["quality"] = 75
    /\ ret.call = [mode |-> "RGBA", format |-> "PNG"]

-----------------------------------------------------------------------------
(* The output paths of a batch (SpecOutput).  A source path is a directory  *)
(* and a file name, <<dir, name>>; an output path is the output directory   *)
(* and the generated name.                                                  *)

\* Path(image_path).name
PathName(image_path) == image_path[2]

\* lines 945-950 of batch_export: the output path of one image
output_path(settings, image_path) ==
    <<settings["output_dir"],
      generate_output_filename(settings, PathName(image_path))>>

SourceDirs == {"a", "b"}
SourcePaths == SourceDirs \X FileNames

\* the export settings dialog: format JPEG or PNG, any naming rule
OutputSettings ==
    {[DefaultOutputSettings EXCEPT !["output_dir"] = "out", !["format"] = f,
                                   !["naming_rule"] = r] :
        f \in {"JPEG", "PNG"}, r \in {"original", "prefix", "suffix"}}

\* two different paths of the collection, the first from directory "a"
OutputInit ==
    /\ Idle
    /\ watermark_settings = DefaultSettings
    /\ templates = <<>>
    /\ output_settings \in OutputSettings
    /\ arg \in {pair \in ({"a"} \X FileNames) \X SourcePaths : pair[1] # pair[2]}
    /\ ret = [op |-> "none"]

DeriveOutputPaths ==
    /\ ret' = [op |-> "output_paths",
               first  |-> output_path(output_settings, arg[1]),
               second |-> output_path(output_settings, arg[2])]
    /\ UNCHANGED <<listVars, batchVars, watermark_settings, templates,
                   output_settings, arg>>

OutputNext == DeriveOutputPaths

SpecOutput == OutputInit /\ [][OutputNext]_vars

\* C19: two different source paths of a collection never get the same
\* output path.
C19_OutputPathsDistinct ==
    ret.op = "output_paths" => ret.first # ret.second

-----------------------------------------------------------------------------
(* Manual placement (SpecManual): on_canvas_click, set_position, the         *)
(* preview resolver and the export renders.  The float arithmetic of         *)
(* on_canvas_click is taken exactly, the scale as a fraction.  arg holds the *)
(* size of the current image, the canvas size, and in arg.last what the last *)
(* accepted click or set_position call asked for.                            *)

\* scale = min(canvas_width / orig_width, canvas_height / orig_height) * 0.9,
\* as <<numerator, denominator>>
ClickScale(orig_width, orig_height, canvas_width, canvas_height) ==
    IF canvas_width * orig_height <= canvas_height * orig_width
    THEN <<9 * canvas_width, 10 * orig_width>>
    ELSE <<9 * canvas_height, 10 * orig_height>>

\* orig_x = int((event.x - x_offset) / scale) with
\* x_offset = (canvas_width - orig_width * scale) // 2; the same along y
ClickToImage(event_c, orig_size, canvas_size, scale) ==
    LET offset == (canvas_size * scale[2] - orig_size * scale[1]) \div (2 * scale[2])
    IN  IntTrunc((event_c - offset) * scale[2], scale[1])

on_canvas_click_NoGuard(event_x, event_y) ==
    LET scale  == ClickScale(arg.width, arg.height, arg.canvas[1], arg.canvas[2])
        orig_x == ClickToImage(event_x, arg.width, arg.canvas[1], scale)
        orig_y == ClickToImage(event_y, arg.height, arg.canvas[2], scale)
    IN  /\ watermark_settings' =
              [k \in DOMAIN watermark_settings \cup {"manual_x", "manual_y"} |->
                  IF k = "position" THEN "manual"
                  ELSE IF k = "manual_x" THEN orig_x
                  ELSE IF k = "manual_y" THEN orig_y
                  ELSE watermark_settings[k]]
        /\ arg' = [arg EXCEPT !.last = [kind |-> "manual", x |-> orig_x,
                                        y |-> orig_y]]
        /\ ret' = [op |-> "on_canvas_click", accepted |-> TRUE,
                   event |-> <<event_x, event_y>>,
                   orig_x |-> orig_x, orig_y |-> orig_y]

\* on_canvas_click(event): nothing without a current image or for a point
\* that maps outside 0..orig_width x 0..orig_height
on_canvas_click(event_x, event_y) ==
    LET scale  == ClickScale(arg.width, arg.height, arg.canvas[1], arg.canvas[2])
        orig_x == ClickToImage(event_x, arg.width, arg.canvas[1], scale)
        orig_y == ClickToImage(event_y, arg.height, arg.canvas[2], scale)
    IN  IF /\ current_image_index >= 0
           /\ 0 <= orig_x /\ orig_x <= arg.width
           /\ 0 <= orig_y /\ orig_y <= arg.height
        THEN /\ watermark_settings' =
                    [k \in DOMAIN watermark_settings \cup {"manual_x", "manual_y"} |->
                        IF k = "position" THEN "manual"
                        ELSE IF k = "manual_x" THEN orig_x
                        ELSE IF k = "manual_y" THEN orig_y
                        ELSE watermark_settings[k]]
             /\ arg' = [arg EXCEPT !.last = [kind |-> "manual", x |-> orig_x,
                                             y |-> orig_y]]
             /\ ret' = [op |-> "on_canvas_click", accepted |-> TRUE,
                        event |-> <<event_x, event_y>>,
                        orig_x |-> orig_x, orig_y |-> orig_y]
        ELSE /\ UNCHANGED <<watermark_settings, arg>>
             /\ ret' = [op |-> "on_canvas_click", accepted |-> FALSE,
                        event |-> <<event_x, event_y>>]

\* points of the canvas the user clicks: left of, on the edges of, inside and
\* right of (above, below) the displayed image
ClickXs == {100, 150, 600, 1050, 1060}
ClickYs == {30, 40, 400, 760, 770}

\* the sizes of the images of the batch: the current image's and another
ExportSizes == {<<arg.width, arg.height>>, <<60, 50>>}

ManualInit ==
    /\ \E n \in 0 .. 1 : images = [k \in 1 .. n |-> k]
    /\ current_image_index = Len(images) - 1
    /\ pc = "idle"
    /\ loop_i = 0
    /\ success_count = 0
    /\ error_count = 0
    /\ progress_window = FALSE
    /\ dispatching = FALSE
    /\ bad_files = {}
    /\ trace = <<>>
    /\ watermark_settings = [DefaultSettings EXCEPT !["image_watermark_path"] = "wm.png"]
    /\ templates = <<>>
    /\ output_settings = DefaultOutputSettings
    /\ arg \in [width : {1000}, height : {800}, cw : {100}, ch : {40},
                canvas : {<<1200, 800>>, <<900, 800>>},
                last : {[kind |-> "anchor", position |-> "bottom-right"]}]
    /\ ret = [op |-> "none"]

ManualFrame == UNCHANGED <<listVars, batchVars, templates, output_settings>>

CanvasClick ==
    /\ \E event_x \in ClickXs, event_y \in ClickYs : on_canvas_click(event_x, event_y)
    /\ ManualFrame

SetPosition ==
    /\ \E position \in Anchors :
          /\ set_position(position)
          /\ arg' = [arg EXCEPT !.last = [kind |-> "anchor", position |-> position]]
    /\ ManualFrame

ManualPreview ==
    /\ \E s \in 1 .. ScaleDen :
          ret' = [op |-> "calculate_watermark_position", s |-> s,
                  pos |-> calculate_watermark_position(
                              watermark_settings["position"], arg.width,
                              arg.height, s, arg.canvas[1], arg.canvas[2])]
    /\ UNCHANGED <<watermark_settings, arg>>
    /\ ManualFrame

ManualExportText ==
    /\ \E size \in ExportSizes :
          ret' = [op |-> "add_text_watermark", size |-> size,
                  at |-> add_text_watermark(watermark_settings, size[1], size[2],
                                            arg.cw, arg.ch)]
    /\ UNCHANGED <<watermark_settings, arg>>
    /\ ManualFrame

ManualExportImage ==
    /\ \E size \in ExportSizes :
          ret' = [op |-> "add_image_watermark", size |-> size,
                  res |-> add_image_watermark(watermark_settings, size[1], size[2],
                                              arg.cw, arg.ch)]
    /\ UNCHANGED <<watermark_settings, arg>>
    /\ ManualFrame

ManualNext ==
    \/ CanvasClick
    \/ SetPosition
    \/ ManualPreview
    \/ ManualExportText
    \/ ManualExportImage

SpecManual == ManualInit /\ [][ManualNext]_vars

\* what the export resolves the position to on an image of the given size
\* when the anchor formula is used
AnchorOrigin(position, size, content_width, content_height) ==
    calculate_actual_position(position, size[1], size[2], content_width,
                              content_height)

\* C15: manual coordinates persist.  After an accepted click the settings
\* hold 'manual' and the pair of that click until another accepted click or
\* set_position, and every render uses that pair: the preview resolves to it
\* times the scale, the text export draws at it and the image export resolves
\* to it, on any image of the batch.  After set_position the settings hold
\* the anchor and the export resolves by the anchor formula.
C15_ManualPersists ==
    /\ arg.last.kind = "manual" =>
          /\ watermark_settings["position"] = "manual"
          /\ watermark_settings["manual_x"] = arg.last.x
          /\ watermark_settings["manual_y"] = arg.last.y
          /\ ret.op = "calculate_watermark_position" =>
                LET off == LetterboxOffset(arg.width, arg.height, ret.s,
                                           arg.canvas[1], arg.canvas[2])
                IN  /\ ret.pos[1] - off[1] = arg.last.x * ret.s
                    /\ ret.pos[2] - off[2] = arg.last.y * ret.s
          /\ ret.op = "add_text_watermark" =>
                ret.at = [x |-> arg.last.x, y |-> arg.last.y]
          /\ ret.op = "add_image_watermark" =>
                /\ ret.res.outcome = "pasted"
                /\ ret.res.x0 = arg.last.x
                /\ ret.res.y0 = arg.last.y
    /\ arg.last.kind = "anchor" =>
          /\ watermark_settings["position"] = arg.last.position
          /\ ret.op = "add_text_watermark" =>
                LET xy == AnchorOrigin(arg.last.position, ret.size, arg.cw, arg.ch)
                IN  ret.at = [x |-> xy[1], y |-> xy[2]]
          /\ ret.op = "add_image_watermark" =>
                LET xy == AnchorOrigin(arg.last.position, ret.size, arg.cw, arg.ch)
                IN  /\ ret.res.outcome = "pasted"
                    /\ ret.res.x0 = xy[1]
                    /\ ret.res.y0 = xy[2]

-----------------------------------------------------------------------------
(* parse_color of the command line tool, src/watermark.py (SpecColor).  A   *)
(* color string is a sequence of one-character strings.                     *)

ColorChars == {"#", ",", "5", "-"}
ColorStrings == UNION {[1 .. n -> ColorChars] : n \in 0 .. MaxColorLen}

\* the value of a digit character
DigitValue(c) == IF c = "5" THEN 5 ELSE 0
IsDigit(c) == c = "5"

\* the number written by a non-empty sequence of digits in the base
RECURSIVE DigitsValue(_, _)
DigitsValue(digits, base) ==
    IF digits = <<>> THEN 0
    ELSE DigitsValue(SubSeq(digits, 1, Len(digits) - 1), base) * base
         + DigitValue(digits[Len(digits)])

\* int(s, base): an optional sign and at least one digit, or ValueError
ParseInt(s, base) ==
    LET signed == s # <<>> /\ s[1] = "-"
        digits == IF signed THEN Tail(s) ELSE s
    IN  IF digits # <<>> /\ \A k \in 1 .. Len(digits) : IsDigit(digits[k])
        THEN [ok |-> TRUE,
              value |-> IF signed THEN 0 - DigitsValue(digits, base)
                        ELSE DigitsValue(digits, base)]
        ELSE [ok |-> FALSE]

\* s.split(','): the pieces between the commas
RECURSIVE SplitComma(_)
SplitComma(s) ==
    IF \A k \in 1 .. Len(s) : s[k] # ","
    THEN <<s>>
    ELSE LET k == CHOOSE j \in 1 .. Len(s) :
                      s[j] = "," /\ \A i \in 1 .. j - 1 : s[i] # ","
         IN  <<SubSeq(s, 1, k - 1)>> \o SplitComma(SubSeq(s, k + 1, Len(s)))

\* tuple(int(p, base) for p in pieces), or ValueError from the first piece
\* that int() rejects
IntTuple(pieces, base) ==
    IF \A k \in 1 .. Len(pieces) : ParseInt(pieces[k], base).ok
    THEN [raised |-> FALSE,
          value |-> [k \in 1 .. Len(pieces) |-> ParseInt(pieces[k], base).value]]
    ELSE [raised |-> TRUE, error |-> "ValueError"]

\* parse_color(color_str)
parse_color(color_str) ==
    IF color_str # <<>> /\ color_str[1] = "#"
    THEN LET hex == Tail(color_str) IN
         IF Len(hex) = 6
         THEN IntTuple(<<SubSeq(hex, 1, 2), SubSeq(hex, 3, 4), SubSeq(hex, 5, 6)>>, 16)
         ELSE [raised |-> TRUE, error |-> "ValueError"]
    ELSE IF \E k \in 1 .. Len(color_str) : color_str[k] = ","
    THEN IntTuple(SplitComma(color_str), 10)
    ELSE [raised |-> TRUE, error |-> "ValueError"]

ColorInit ==
    /\ Idle
    /\ watermark_settings = DefaultSettings
    /\ templates = <<>>
    /\ output_settings = DefaultOutputSettings
    /\ arg \in [color_str : ColorStrings]
    /\ ret = [op |-> "none"]

ParseColor ==
    /\ ret' = [op |-> "parse_color", res |-> parse_color(arg.color_str)]
    /\ UNCHANGED <<listVars, batchVars, watermark_settings, templates,
                   output_settings, arg>>

ColorNext == ParseColor

SpecColor == ColorInit /\ [][ColorNext]_vars

\* C21: parse_color returns three integers, each in 0..255, or raises
\* ValueError.
C21_ColorIsRGBTriple ==
    ret.op = "parse_color" =>
        IF ret.res.raised
        THEN ret.res.error = "ValueError"
        ELSE /\ Len(ret.res.value) = 3
             /\ \A k \in 1 .. 3 : ret.res.value[k] \in 0 .. 255

-----------------------------------------------------------------------------
(* add_watermark_to_image step by step (SpecExport).  faults names the      *)
(* steps that raise for the image at hand: "open" (Image.open or convert of *)
(* the source), "font" (the font file is missing or ImageFont.truetype      *)
(* raises), "draw" (textbbox or draw.text), "wm_open" (the watermark image  *)
(* cannot be opened), "composite" (alpha_composite) and "save".  The        *)
(* watermark type is the radio button's value, text or image.               *)

ExportFaults == {"open", "font", "draw", "wm_open", "composite", "save"}

\* lines 1028-1048: the font of add_text_watermark; every failure in there
\* ends in ImageFont.load_default()
resolve_font(faults) == IF "font" \in faults THEN "default" ELSE "truetype"

\* the body of the try of add_watermark_to_image: exc tells whether an
\* exception left it, saved whether the save call completed
export_try_body(faults, watermark_type, settings, width, height, cw, ch) ==
    LET failed == [exc |-> TRUE, saved |-> FALSE]
        drawn ==
            IF watermark_type = "text"
            THEN IF "draw" \in faults THEN failed
                 \* font_color + (opacity,): a tuple is concatenated only to
                 \* a tuple, anything else raises TypeError
                 ELSE IF settings["font_color"].type # "tuple" THEN failed
                 ELSE [exc |-> FALSE, font |-> resolve_font(faults)]
            ELSE IF settings["image_watermark_path"] = "None"
                 THEN [exc |-> FALSE, font |-> "none"]
                 ELSE IF "wm_open" \in faults THEN failed
                 ELSE IF add_image_watermark(settings, width, height, cw, ch).outcome
                            = "raised"
                      THEN failed
                      ELSE [exc |-> FALSE, font |-> "none"]
    IN  IF "open" \in faults THEN failed
        ELSE IF drawn.exc THEN failed
        ELSE IF "composite" \in faults THEN failed
        ELSE IF "save" \in faults THEN failed
        ELSE [exc |-> FALSE, saved |-> TRUE, font |-> drawn.font]

export_call_Reraise(body) ==
    IF body.exc
    THEN [raised |-> TRUE, saved |-> body.saved]
    ELSE [raised |-> FALSE, returned |-> TRUE, saved |-> body.saved,
          font |-> body.font]

\* try: ... return True / except Exception: log, return False
export_call(body) ==
    IF body.exc
    THEN [raised |-> FALSE, returned |-> FALSE, saved |-> body.saved]
    ELSE [raised |-> FALSE, returned |-> TRUE, saved |-> body.saved,
          font |-> body.font]

ExportSettings ==
    {[DefaultSettings EXCEPT !["image_watermark_path"] = path,
                             !["image_watermark_scale"] = pct] :
        path \in {"None", "wm.png"}, pct \in {1, 100}}

ExportInit ==
    /\ Idle
    /\ watermark_settings \in ExportSettings
    /\ templates = <<>>
    /\ output_settings = DefaultOutputSettings
    /\ arg \in [faults : SUBSET ExportFaults, watermark_type : {"text", "image"},
                width : {1000}, height : {800}, cw : {100}, ch : {40}]
    /\ ret = [op |-> "none"]

ExportOne ==
    /\ ret' = [op |-> "add_watermark_to_image",
               res |-> export_call(export_try_body(arg.faults, arg.watermark_type,
                                       watermark_settings, arg.width, arg.height,
                                       arg.cw, arg.ch))]
    /\ UNCHANGED <<listVars, batchVars, watermark_settings, templates,
                   output_settings, arg>>

ExportNext == ExportOne

SpecExport == ExportInit /\ [][ExportNext]_vars

\* the steps of the export at hand that fail: for a text watermark the font
\* is not among them; for an image watermark the watermark file is opened
\* only if a path is set, and a scaled size below one pixel makes resize fail
StepsThatFail ==
    LET common == arg.faults \cap {"open", "composite", "save"}
        set_path == watermark_settings["image_watermark_path"] # "None"
    IN  IF arg.watermark_type = "text"
        THEN common \cup (arg.faults \cap {"draw"})
        ELSE common
             \cup (IF set_path THEN arg.faults \cap {"wm_open"} ELSE {})
             \cup (IF set_path /\ watermark_settings["image_watermark_scale"] = 1
                   THEN {"resize"} ELSE {})

\* C22: add_watermark_to_image never raises; it returns True exactly when no
\* step failed, and then the output has been saved; it returns False when a
\* step failed, and then nothing was saved; a font that cannot be resolved
\* is not a failure, the default font is used.
C22_FailureIsAValue ==
    ret.op = "add_watermark_to_image" =>
        /\ ~ret.res.raised
        /\ ret.res.returned = (StepsThatFail = {})
        /\ ret.res.returned = ret.res.saved
        /\ (ret.res.returned /\ arg.watermark_type = "text" /\ "font" \in arg.faults)
              => ret.res.font = "default"

\* C22 witness: a text export whose font cannot be resolved succeeds with
\* the default font
C22_Witness ==
    /\ ret.op = "add_watermark_to_image"
    /\ arg.watermark_type = "text"
    /\ arg.faults = {"font"}
    /\ ret.res = [raised |-> FALSE, returned |-> TRUE, saved |-> TRUE,
                  font |-> "default"]

-----------------------------------------------------------------------------
(* The draw calls of add_text_watermark, in the order they are made         *)
(* (SpecLayers).  A later call draws over an earlier one.  font_color is    *)
(* held with its Python type, tuple or list, and its components.            *)

\* the offsets of the stroke, in the order of the two nested loops over
\* [-2, 0, 2] without (0, 0)
StrokeOffsets ==
    <<<<-2, -2>>, <<-2, 0>>, <<-2, 2>>, <<0, -2>>, <<0, 2>>, <<2, -2>>, <<2, 0>>,
      <<2, 2>>>>

text_draw_calls_MainFirst(settings, x, y) ==
    LET opacity == text_alpha(settings)
        main == <<[what |-> "main", at |-> <<x, y>>,
                   rgb |-> settings["font_color"].rgb, alpha |-> opacity]>>
        shadow == IF settings["shadow_enabled"]
                  THEN <<[what |-> "shadow", at |-> <<x + 2, y + 2>>,
                          rgb |-> <<0, 0, 0>>, alpha |-> opacity \div 2]>>
                  ELSE <<>>
        stroke == IF settings["stroke_enabled"]
                  THEN [k \in 1 .. Len(StrokeOffsets) |->
                           [what |-> "stroke",
                            at |-> <<x + StrokeOffsets[k][1], y + StrokeOffsets[k][2]>>,
                            rgb |-> <<0, 0, 0>>, alpha |-> opacity]]
                  ELSE <<>>
    IN  main \o shadow \o stroke

\* lines 1063-1081: the shadow if enabled, the stroke if enabled, the main
\* text
text_draw_calls(settings, x, y) ==
    LET opacity == text_alpha(settings)
        main == <<[what |-> "main", at |-> <<x, y>>,
                   rgb |-> settings["font_color"].rgb, alpha |-> opacity]>>
        shadow == IF settings["shadow_enabled"]
                  THEN <<[what |-> "shadow", at |-> <<x + 2, y + 2>>,
                          rgb |-> <<0, 0, 0>>, alpha |-> opacity \div 2]>>
                  ELSE <<>>
        stroke == IF settings["stroke_enabled"]
                  THEN [k \in 1 .. Len(StrokeOffsets) |->
                           [what |-> "stroke",
                            at |-> <<x + StrokeOffsets[k][1], y + StrokeOffsets[k][2]>>,
                            rgb |-> <<0, 0, 0>>, alpha |-> opacity]]
                  ELSE <<>>
    IN  shadow \o stroke \o main

LayerSettings ==
    {[DefaultSettings EXCEPT !["opacity"] = o, !["shadow_enabled"] = sh,
                             !["stroke_enabled"] = st] :
        o \in 0 .. 100, sh \in BOOLEAN, st \in BOOLEAN}

LayersInit ==
    /\ Idle
    /\ watermark_settings \in LayerSettings
    /\ templates = <<>>
    /\ output_settings = DefaultOutputSettings
    /\ arg \in [width : {1000}, height : {800}, cw : {100}, ch : {40}]
    /\ ret = [op |-> "none"]

DrawText ==
    /\ LET at == add_text_watermark(watermark_settings, arg.width, arg.height,
                                    arg.cw, arg.ch)
       IN  ret' = [op |-> "draw_text", at |-> at,
                   calls |-> text_draw_calls(watermark_settings, at.x, at.y)]
    /\ UNCHANGED <<listVars, batchVars, watermark_settings, templates,
                   output_settings, arg>>

LayersNext == DrawText

SpecLayers == LayersInit /\ [][LayersNext]_vars

\* the positions in the calls of the draws of one kind
CallsOf(calls, what) == {k \in 1 .. Len(calls) : calls[k].what = what}

\* C23: the main text is the last draw, at the resolved position; an enabled
\* shadow is one draw, the first, at (+2, +2), black, with half the text
\* alpha rounded down; an enabled stroke is eight draws, at the eight offsets
\* of {-2,0,2} x {-2,0,2} other than (0,0), black, at the text alpha, after
\* the shadow and before the main text; a disabled effect draws nothing.
C23_TextLayerOrder ==
    ret.op = "draw_text" =>
        LET calls == ret.calls
            alpha == calls[Len(calls)].alpha
            shadows == CallsOf(calls, "shadow")
            strokes == CallsOf(calls, "stroke")
        IN  /\ CallsOf(calls, "main") = {Len(calls)}
            /\ calls[Len(calls)].at = <<ret.at.x, ret.at.y>>
            /\ shadows = IF watermark_settings["shadow_enabled"] THEN {1} ELSE {}
            /\ \A k \in shadows :
                  /\ calls[k].at = <<ret.at.x + 2, ret.at.y + 2>>
                  /\ calls[k].rgb = <<0, 0, 0>>
                  /\ 2 * calls[k].alpha <= alpha /\ alpha <= 2 * calls[k].alpha + 1
            /\ Cardinality(strokes) = IF watermark_settings["stroke_enabled"] THEN 8 ELSE 0
            /\ watermark_settings["stroke_enabled"] =>
                  {<<calls[k].at[1] - ret.at.x, calls[k].at[2] - ret.at.y>> : k \in strokes}
                      = ({-2, 0, 2} \X {-2, 0, 2}) \ {<<0, 0>>}
            /\ \A k \in strokes :
                  /\ calls[k].rgb = <<0, 0, 0>>
                  /\ calls[k].alpha = alpha
                  /\ \A j \in shadows : j < k
                  /\ k < Len(calls)

\* C23 witness: shadow and stroke both enabled give ten draws, the shadow
\* at half of the alpha 204 of opacity 80
C23_Witness ==
    /\ ret.op = "draw_text"
    /\ watermark_settings["shadow_enabled"]
    /\ watermark_settings["stroke_enabled"]
    /\ watermark_settings["opacity"] = 80
    /\ Len(ret.calls) = 10
    /\ ret.calls[1].what = "shadow"
    /\ ret.calls[1].alpha = 102
    /\ ret.calls[10].what = "main"

-----------------------------------------------------------------------------
(* draw_watermark_preview (SpecPreview): where the watermark is put on the  *)
(* preview canvas.  Coordinates are in 1/ScaleDen pixels, the scale is      *)
(* s/ScaleDen as for calculate_watermark_position.                          *)

\* draw_watermark_preview for an image of width x height with a watermark
\* file of wm_width x wm_height pixels: nothing is drawn for an empty text or
\* without a watermark path; otherwise the canvas point handed to
\* create_text (anchor CENTER) or create_image (anchor NW), and the size of
\* the scaled watermark image
draw_watermark_preview(watermark_type, settings, width, height, s, canvas, wm_width, wm_height) ==
    LET pos == calculate_watermark_position(settings["position"], width, height,
                                            s, canvas[1], canvas[2])
        off == LetterboxOffset(width, height, s, canvas[1], canvas[2])
        \* int(watermark_image.width * watermark_scale * scale)
        w == IntTrunc(wm_width * settings["image_watermark_scale"] * s,
                      100 * ScaleDen)
        h == IntTrunc(wm_height * settings["image_watermark_scale"] * s,
                      100 * ScaleDen)
    IN  IF watermark_type = "text"
        THEN IF settings["text"] = ""
             THEN [drawn |-> FALSE]
             ELSE [drawn |-> TRUE, anchor |-> "CENTER", at |-> pos]
        ELSE IF settings["image_watermark_path"] = "None"
             THEN [drawn |-> FALSE]
             ELSE [drawn |-> TRUE, anchor |-> "NW", w |-> w, h |-> h,
                   at |-> <<pos[1] + off[1] - ScaleDen * (w \div 2),
                            pos[2] + off[2] - ScaleDen * (h \div 2)>>]

PreviewSettings ==
    {[DefaultSettings EXCEPT !["position"] = p, !["image_watermark_path"] = "wm.png",
                             !["image_watermark_scale"] = pct] :
        p \in Anchors, pct \in ScalePercents}

PreviewInit ==
    /\ Idle
    /\ watermark_settings \in PreviewSettings
    /\ templates = <<>>
    /\ output_settings = DefaultOutputSettings
    /\ arg \in [width : {1000}, height : {800}, cw : {100}, ch : {40},
                watermark_type : {"text", "image"}]
    /\ ret = [op |-> "none"]

DrawPreview ==
    /\ \E s \in 1 .. ScaleDen, canvas \in Canvases :
          ret' = [op |-> "draw_watermark_preview", s |-> s, canvas |-> canvas,
                  res |-> draw_watermark_preview(arg.watermark_type,
                              watermark_settings, arg.width, arg.height, s,
                              canvas, arg.cw, arg.ch)]
    /\ UNCHANGED <<listVars, batchVars, watermark_settings, templates,
                   output_settings, arg>>

PreviewNext == DrawPreview

SpecPreview == PreviewInit /\ [][PreviewNext]_vars

\* the point of the canvas on which the drawn watermark is centered
PreviewCenter(res) ==
    IF res.anchor = "CENTER" THEN res.at
    ELSE <<res.at[1] + ScaleDen * (res.w \div 2), res.at[2] + ScaleDen * (res.h \div 2)>>

\* C24: the point at which the watermark is drawn on the canvas is the
\* position in the frame of the scaled image plus the letterbox offset,
\* added once, for the text and for the image variant.
C24_OffsetAddedOnce ==
    (ret.op = "draw_watermark_preview" /\ ret.res.drawn) =>
        LET off == LetterboxOffset(arg.width, arg.height, ret.s,
                                   ret.canvas[1], ret.canvas[2])
            pos == calculate_watermark_position(watermark_settings["position"],
                       arg.width, arg.height, ret.s, ret.canvas[1], ret.canvas[2])
            in_frame == <<pos[1] - off[1], pos[2] - off[2]>>
            center == PreviewCenter(ret.res)
        IN  /\ center[1] = in_frame[1] + off[1]
            /\ center[2] = in_frame[2] + off[2]

-----------------------------------------------------------------------------
(* Compositing on the export path, one pixel at a time (SpecComposite).  A  *)
(* pixel is [rgb |-> <<r, g, b>>, a |-> alpha].  The pixel followed is one  *)
(* that the watermark covers: a pixel of a glyph of the text, or a pixel    *)
(* inside the pasted watermark image.                                       *)

\* Image.new('RGBA', image.size, (255, 255, 255, 0))
LayerPixel == [rgb |-> <<255, 255, 255>>, a |-> 0]

\* one band of layer.paste(im, box, mask): the mask value m blends the two
Blend(under, over, m) == (under * (255 - m) + over * m + 127) \div 255

\* layer.paste(watermark_image, (x, y), watermark_image): the alpha band of
\* the pasted image is the mask, for every band
paste(layer, im) ==
    [rgb |-> [c \in 1 .. 3 |-> Blend(layer.rgb[c], im.rgb[c], im.a)],
     a |-> Blend(layer.a, im.a, im.a)]

render_pixel_IgnoreOpacity(watermark_type, settings, wm_pixel) ==
    IF watermark_type = "text"
    THEN IF settings["text"] = "" THEN LayerPixel
         ELSE [rgb |-> settings["font_color"].rgb, a |-> text_alpha(settings)]
    ELSE IF settings["image_watermark_path"] = "None" THEN LayerPixel
         ELSE paste(LayerPixel, wm_pixel)

\* the layer pixel after add_text_watermark or add_image_watermark: draw.text
\* of an empty text paints nothing and otherwise sets the fill colour;
\* add_image_watermark returns at once without a path and otherwise pastes
\* the watermark with its alpha band put through the opacity
render_pixel(watermark_type, settings, wm_pixel) ==
    IF watermark_type = "text"
    THEN IF settings["text"] = "" THEN LayerPixel
         ELSE [rgb |-> settings["font_color"].rgb, a |-> text_alpha(settings)]
    ELSE IF settings["image_watermark_path"] = "None" THEN LayerPixel
         ELSE paste(LayerPixel,
                    [wm_pixel EXCEPT !.a =
                        image_alpha(wm_pixel.a, settings["image_watermark_opacity"])])

\* Image.alpha_composite(image, watermark_layer) at one pixel: a source
\* pixel of alpha 0 leaves the destination pixel; otherwise source over
\* destination
alpha_composite(dst, src) ==
    IF src.a = 0 THEN dst
    ELSE LET outa255 == src.a * 255 + dst.a * (255 - src.a)
         IN  [rgb |-> [c \in 1 .. 3 |->
                          (src.rgb[c] * src.a * 255
                           + dst.rgb[c] * dst.a * (255 - src.a)) \div outa255],
              a |-> (outa255 + 127) \div 255]

CompositeSettings ==
    {[DefaultSettings EXCEPT !["text"] = text, !["image_watermark_path"] = path,
                             !["image_watermark_opacity"] = o] :
        text \in {"", "watermark text"}, path \in {"None", "wm.png"},
        o \in {0, 50, 100}}

BasePixels == {[rgb |-> <<10, 20, 30>>, a |-> 255],
               [rgb |-> <<200, 100, 50>>, a |-> 128],
               [rgb |-> <<0, 0, 0>>, a |-> 0]}
WatermarkPixels == {[rgb |-> <<255, 0, 0>>, a |-> 255],
                    [rgb |-> <<0, 255, 0>>, a |-> 100]}

CompositeInit ==
    /\ Idle
    /\ watermark_settings \in CompositeSettings
    /\ templates = <<>>
    /\ output_settings = DefaultOutputSettings
    /\ arg \in [watermark_type : {"text", "image"}, base : BasePixels,
                wm_pixel : WatermarkPixels,
                width : {1000}, height : {800}, cw : {100}, ch : {40}]
    /\ ret = [op |-> "none"]

CompositeOne ==
    /\ LET layer == render_pixel(arg.watermark_type, watermark_settings, arg.wm_pixel)
           res == export_call(export_try_body({}, arg.watermark_type,
                                  watermark_settings, arg.width, arg.height,
                                  arg.cw, arg.ch))
       IN  ret' = [op |-> "composite", layer |-> layer,
                   out |-> alpha_composite(arg.base, layer), res |-> res]
    /\ UNCHANGED <<listVars, batchVars, watermark_settings, templates,
                   output_settings, arg>>

CompositeNext == CompositeOne

SpecComposite == CompositeInit /\ [][CompositeNext]_vars

\* the cases in which nothing is drawn on the layer
NothingDrawn ==
    IF arg.watermark_type = "text"
    THEN watermark_settings["text"] = ""
    ELSE \/ watermark_settings["image_watermark_path"] = "None"
         \/ watermark_settings["image_watermark_opacity"] = 0

\* C25: when nothing is drawn (image variant without a path or with opacity
\* 0, text variant with an empty text) the layer pixel is still fully
\* transparent, the composite pixel is the base pixel, and the export
\* returns True with the output saved.
C25_CompositeIdentity ==
    (ret.op = "composite" /\ NothingDrawn) =>
        /\ ret.layer.a = 0
        /\ ret.out = arg.base
        /\ ret.res.returned
        /\ ret.res.saved

\* C25 witness: an opaque red watermark pixel pasted with opacity 0 leaves a
\* half-transparent base pixel as it was
C25_Witness ==
    /\ ret.op = "composite"
    /\ arg.watermark_type = "image"
    /\ watermark_settings["image_watermark_path"] = "wm.png"
    /\ watermark_settings["image_watermark_opacity"] = 0
    /\ arg.wm_pixel.a = 255
    /\ arg.base.a = 128
    /\ ret.out = arg.base

-----------------------------------------------------------------------------
(* Templates through the configuration file (SpecTemplate).  arg.config is  *)
(* the content of ~/.watermark_app_config.json (<<>> while the file does    *)
(* not exist, else one record), arg.saved remembers for every template name *)
(* the settings that save_template was given.  A colour is a record with    *)
(* the kind of the Python value (tuple or list; array inside the file) and  *)
(* its components.                                                          *)

\* json.dump of one settings dict: a tuple and a list are both written as an
\* array; strings, integers, booleans and None keep their value
json_dump_settings(s) ==
    [s EXCEPT !["font_color"] = [type |-> "array", rgb |-> @.rgb]]

\* json.load of one settings dict: an array is read as a list
json_load_settings(s) ==
    [s EXCEPT !["font_color"] =
        [type |-> IF @.type = "array" THEN "list" ELSE @.type, rgb |-> @.rgb]]

\* save_config: both dicts go to the file
save_config(tpls, out) ==
    <<[templates |-> [n \in DOMAIN tpls |-> json_dump_settings(tpls[n])],
       output_settings |-> out]>>

\* load_config: the templates of the file replace self.templates, the
\* output settings of the file update the defaults
load_config_templates(config) ==
    IF config = <<>> THEN <<>>
    ELSE [n \in DOMAIN config[1].templates |->
             json_load_settings(config[1].templates[n])]

load_config_output(config) ==
    IF config = <<>> THEN DefaultOutputSettings ELSE config[1].output_settings

ChosenColors == {<<255, 0, 0>>, <<0, 0, 255>>}

\* choose_color with a colour picked in the dialog
choose_color(rgb) ==
    /\ watermark_settings' =
          [watermark_settings EXCEPT !["font_color"] = [type |-> "tuple", rgb |-> rgb]]
    /\ ret' = [op |-> "choose_color"]
    /\ UNCHANGED <<templates, output_settings, arg>>

\* save_template: the copy goes into self.templates and save_config writes
\* the file
TemplateSave(name) ==
    /\ save_template(name)
    /\ arg' = [config |-> save_config(templates', output_settings),
               saved |-> (name :> watermark_settings) @@ arg.saved]
    /\ UNCHANGED output_settings

\* the application is closed and started again: __init__ sets the defaults
\* and load_config reads the file
Restart ==
    /\ watermark_settings' = DefaultSettings
    /\ templates' = load_config_templates(arg.config)
    /\ output_settings' = load_config_output(arg.config)
    /\ ret' = [op |-> "restart"]
    /\ UNCHANGED arg

TemplateLoad(name) ==
    /\ load_template(name)
    /\ UNCHANGED <<output_settings, arg>>

\* a text export of an image that opens, draws and saves without a fault
TemplateExportText ==
    /\ ret' = [op |-> "add_watermark_to_image",
               res |-> export_call(export_try_body({}, "text", watermark_settings,
                                       1000, 800, 100, 40))]
    /\ UNCHANGED <<watermark_settings, templates, output_settings, arg>>

TemplateInit ==
    /\ Idle
    /\ watermark_settings = DefaultSettings
    /\ templates = <<>>
    /\ output_settings = DefaultOutputSettings
    /\ arg = [config |-> <<>>, saved |-> <<>>]
    /\ ret = [op |-> "none"]

TemplateFrame == UNCHANGED <<listVars, batchVars>>

TemplateNext ==
    \/ \E rgb \in ChosenColors : choose_color(rgb) /\ TemplateFrame
    \/ \E v \in OpacityInputs :
          on_opacity_change(v) /\ UNCHANGED <<output_settings, arg>> /\ TemplateFrame
    \/ \E name \in TemplateNames : TemplateSave(name) /\ TemplateFrame
    \/ \E name \in TemplateNames : TemplateLoad(name) /\ TemplateFrame
    \/ Restart /\ TemplateFrame
    \/ TemplateExportText /\ TemplateFrame

SpecTemplate == TemplateInit /\ [][TemplateNext]_vars

TextExportSucceeds(settings) ==
    export_call(export_try_body({}, "text", settings, 1000, 800, 100, 40)).returned

\* C26: the settings that load_template applies equal the settings that
\* save_template was given under that name, also after the configuration
\* file was written and read back, and a text export that succeeded with the
\* saved settings succeeds with the loaded ones.
C26_TemplateSurvivesPersistence ==
    (ret.op = "load_template" /\ ret.name \in DOMAIN arg.saved) =>
        /\ watermark_settings = arg.saved[ret.name]
        /\ TextExportSucceeds(arg.saved[ret.name]) =>
              TextExportSucceeds(watermark_settings)

-----------------------------------------------------------------------------
(* Output paths against source paths (SpecOverwrite).  The output directory *)
(* is whatever the export dialog holds: a directory of its own ("out") or   *)
(* one that source images were imported from ("a").                         *)

AJpg == <<"a", ".", "j", "p", "g">>
APng == <<"a", ".", "p", "n", "g">>
ASuffixedJpg == <<"a">> \o DefaultOutputSettings["suffix"] \o <<".", "j", "p", "g">>
OverwriteNames == FileNames \cup {AJpg, APng, ASuffixedJpg}

\* save_export_settings stores the directory typed or browsed, unchecked
OverwriteSettings ==
    {[DefaultOutputSettings EXCEPT !["output_dir"] = d, !["format"] = f,
                                   !["naming_rule"] = r] :
        d \in {"out", "a"}, f \in {"JPEG", "PNG"},
        r \in {"original", "prefix", "suffix"}}

\* a collection of two different source paths
OverwriteInit ==
    /\ Idle
    /\ watermark_settings = DefaultSettings
    /\ templates = <<>>
    /\ output_settings \in OverwriteSettings
    /\ arg \in {pair \in (SourceDirs \X OverwriteNames)
                         \X (SourceDirs \X {AJpg, ASuffixedJpg}) :
                   pair[1] # pair[2]}
    /\ ret = [op |-> "none"]

\* the loop of batch_export: the path handed to add_watermark_to_image for
\* each image, where watermarked.save writes
OverwriteOutputPaths ==
    /\ ret' = [op |-> "batch_output_paths",
               paths |-> [i \in 1 .. 2 |-> output_path(output_settings, arg[i])]]
    /\ UNCHANGED <<listVars, batchVars, watermark_settings, templates,
                   output_settings, arg>>

OverwriteNext == OverwriteOutputPaths

SpecOverwrite == OverwriteInit /\ [][OverwriteNext]_vars

\* C27: no output path of a batch is the path of a source image of the
\* collection.
C27_NoSourceOverwritten ==
    ret.op = "batch_output_paths" =>
        \A i \in 1 .. 2 : \A j \in 1 .. 2 : ret.paths[i] # arg[j]

-----------------------------------------------------------------------------
(* The frame of on_canvas_click, under SpecManual *)

\* the original coordinates a canvas point maps to on the current image
ClickedPoint(event) ==
    LET scale == ClickScale(arg.width, arg.height, arg.canvas[1], arg.canvas[2])
    IN  <<ClickToImage(event[1], arg.width, arg.canvas[1], scale),
          ClickToImage(event[2], arg.height, arg.canvas[2], scale)>>

ClickInside(event) ==
    /\ current_image_index >= 0
    /\ ClickedPoint(event)[1] \in 0 .. arg.width
    /\ ClickedPoint(event)[2] \in 0 .. arg.height

\* C28: a click that maps inside the current image sets position 'manual'
\* and stores the mapped pair, which lies within the image, leaving every
\* other setting; a click without a current image or mapping outside the
\* image leaves the settings as they were.
C28_ClickFrame ==
    [][ret'.op = "on_canvas_click" =>
          IF ClickInside(ret'.event)
          THEN /\ watermark_settings'["position"] = "manual"
               /\ watermark_settings'["manual_x"] = ClickedPoint(ret'.event)[1]
               /\ watermark_settings'["manual_y"] = ClickedPoint(ret'.event)[2]
               /\ watermark_settings'["manual_x"] \in 0 .. arg.width
               /\ watermark_settings'["manual_y"] \in 0 .. arg.height
               /\ \A k \in DOMAIN watermark_settings
                            \ {"position", "manual_x", "manual_y"} :
                     watermark_settings'[k] = watermark_settings[k]
          ELSE watermark_settings' = watermark_settings]_vars

\* C28 witness: with an image selected and a manual pair stored, a click
\* left of the displayed image was handled and the pair is still in place
C28_Witness ==
    /\ ret.op = "on_canvas_click"
    /\ current_image_index >= 0
    /\ ~ret.accepted
    /\ watermark_settings["position"] = "manual"
    /\ watermark_settings["manual_x"] \in 0 .. arg.width

-----------------------------------------------------------------------------
(* The current image index, under SpecList *)

IndexValid ==
    /\ current_image_index \in -1 .. Len(images) - 1
    /\ images = <<>> => current_image_index = -1

\* C29: current_image_index is -1 or an index into images, and -1 whenever
\* images is empty; an import into an empty list selects index 0; a
\* confirmed clear_images empties the list and sets the index to -1, a
\* declined one changes neither.
C29_IndexValid ==
    /\ IndexValid
    /\ [][/\ IndexValid'
          /\ (ret'.op = "add_images" /\ images = <<>>) =>
                (images' # <<>> /\ current_image_index' = 0)
          /\ ret'.op = "clear_images" =>
                IF ret'.confirmed
                THEN images' = <<>> /\ current_image_index' = -1
                ELSE UNCHANGED <<images, current_image_index>>]_vars

\* C29 witness: the last of three images is selected and a clear was
\* declined
C29_Witness ==
    /\ ret.op = "clear_images"
    /\ ~ret.confirmed
    /\ Len(images) = 3
    /\ current_image_index = 2

-----------------------------------------------------------------------------
(* The command line tool, watermark.py (SpecCli): process_directory over    *)
(* the entries of the input directory.  arg.listdir is what os.listdir      *)
(* returns, in the order it returns it; the output directory, created       *)
(* inside the input directory just before, is one of the entries.           *)
(* arg.fault gives for every entry that is attempted the step of            *)
(* add_watermark that raises on it, if any.  loop_i counts the entries      *)
(* done, success_count is processed_count, trace lists the attempts.        *)

Lower(c) ==
    CASE c = "B" -> "b" [] c = "J" -> "j" [] c = "P" -> "p" [] c = "G" -> "g"
      [] OTHER -> c

\* str.lower()
lower(s) == [k \in 1 .. Len(s) |-> Lower(s[k])]

\* str.endswith(tuple of suffixes)
endswith(s, suffixes) ==
    \E suf \in suffixes :
        /\ Len(suf) <= Len(s)
        /\ SubSeq(s, Len(s) - Len(suf) + 1, Len(s)) = suf

supported_formats ==
    {<<".", "j", "p", "g">>, <<".", "j", "p", "e", "g">>, <<".", "p", "n", "g">>,
     <<".", "t", "i", "f", "f">>, <<".", "b", "m", "p">>, <<".", "g", "i", "f">>}

\* if filename.lower().endswith(supported_formats)
is_supported(filename) == endswith(lower(filename), supported_formats)

\* os.path.basename(input_dir) + "_watermark" for the input directory "in"
OutputDirName == <<"i", "n", "_", "w", "a", "t", "e", "r", "m", "a", "r", "k">>

CliEntries ==
    {<<"a", ".", "j", "p", "g">>, <<"B", ".", "J", "P", "G">>,
     <<"f", ".", "t", "i", "f", "f">>, <<"d", ".", "t", "x", "t">>,
     <<"e", ".", "t", "i", "f">>, OutputDirName}

CliFaults == {"none", "open", "save"}

\* the body of the try of add_watermark on a file with the given fault
add_watermark_body(fault) ==
    IF fault = "open" THEN [exc |-> TRUE, saved |-> FALSE]
    ELSE IF fault = "save" THEN [exc |-> TRUE, saved |-> FALSE]
    ELSE [exc |-> FALSE, saved |-> TRUE]

add_watermark_Reraise(body) ==
    IF body.exc THEN [raised |-> TRUE, saved |-> body.saved]
    ELSE [raised |-> FALSE, returned |-> TRUE, saved |-> body.saved]

\* add_watermark: try: ... return True / except Exception: log, return False
add_watermark(body) ==
    IF body.exc THEN [raised |-> FALSE, returned |-> FALSE, saved |-> body.saved]
    ELSE [raised |-> FALSE, returned |-> TRUE, saved |-> body.saved]

CliListings ==
    {q \in UNION {[1 .. n -> CliEntries] : n \in 1 .. MaxEntries} :
        /\ \A a, b \in 1 .. Len(q) : q[a] = q[b] => a = b
        /\ OutputDirName \in Range(q)}

CliInit ==
    /\ Idle
    /\ watermark_settings = DefaultSettings
    /\ templates = <<>>
    /\ output_settings = DefaultOutputSettings
    /\ \E q \in CliListings :
          \E f \in [{e \in Range(q) : is_supported(e)} -> CliFaults] :
              arg = [listdir |-> q, fault |-> f]
    /\ ret = [op |-> "none"]

CliFrame == UNCHANGED <<listVars, progress_window, dispatching, bad_files,
                        watermark_settings, templates, output_settings, arg>>

\* process_directory up to the loop: makedirs, the counters, os.listdir
process_directory_begin ==
    /\ pc = "idle"
    /\ pc' = "running"
    /\ loop_i' = 0
    /\ success_count' = 0
    /\ error_count' = 0
    /\ trace' = <<>>
    /\ ret' = [op |-> "process_directory_begin"]
    /\ CliFrame

\* one turn of the loop over os.listdir(input_dir)
process_directory_iteration ==
    /\ pc = "running"
    /\ loop_i < Len(arg.listdir)
    /\ LET filename == arg.listdir[loop_i + 1]
       IN  IF is_supported(filename)
           THEN LET res == add_watermark(add_watermark_body(arg.fault[filename]))
                IN  /\ trace' = Append(trace, [filename |-> filename, res |-> res])
                    /\ IF res.raised
                       THEN /\ pc' = "raised"
                            /\ UNCHANGED <<loop_i, success_count, error_count>>
                       ELSE /\ pc' = "running"
                            /\ loop_i' = loop_i + 1
                            /\ success_count' =
                                  IF res.returned THEN success_count + 1
                                  ELSE success_count
                            /\ error_count' =
                                  IF res.returned THEN error_count
                                  ELSE error_count + 1
           ELSE /\ loop_i' = loop_i + 1
                /\ UNCHANGED <<pc, success_count, error_count, trace>>
    /\ ret' = [op |-> "process_directory_iteration"]
    /\ CliFrame

\* return processed_count, error_count
process_directory_return ==
    /\ pc = "running"
    /\ loop_i = Len(arg.listdir)
    /\ pc' = "done"
    /\ ret' = [op |-> "process_directory", processed_count |-> success_count,
               error_count |-> error_count]
    /\ UNCHANGED <<loop_i, success_count, error_count, trace>>
    /\ CliFrame

CliNext ==
    \/ process_directory_begin
    \/ process_directory_iteration
    \/ process_directory_return

SpecCli == CliInit /\ [][CliNext]_vars

\* the entries of the listing that process_directory has to attempt
RECURSIVE SupportedOf(_)
SupportedOf(q) ==
    IF q = <<>> THEN <<>>
    ELSE IF is_supported(Head(q)) THEN <<Head(q)>> \o SupportedOf(Tail(q))
    ELSE SupportedOf(Tail(q))

\* C30: add_watermark never raises and returns True exactly when it saved;
\* process_directory never stops early, and when it returns it has
\* attempted every supported entry of the listing once, in listing order,
\* the failing ones included, and its two counts sum to their number.
C30_CliBatch ==
    /\ pc # "raised"
    /\ \A k \in 1 .. Len(trace) :
          /\ ~trace[k].res.raised
          /\ trace[k].res.returned = trace[k].res.saved
          /\ trace[k].res.returned = (arg.fault[trace[k].filename] = "none")
    /\ pc = "done" =>
          /\ [k \in 1 .. Len(trace) |-> trace[k].filename] = SupportedOf(arg.listdir)
          /\ ret.processed_count + ret.error_count = Len(SupportedOf(arg.listdir))
          /\ ret.error_count =
                Cardinality({e \in DOMAIN arg.fault : arg.fault[e] # "none"})

\* C30 witness: a listing of a file that cannot be opened, the output
\* directory, a text file and B.JPG: one failure, then one success
C30_Witness ==
    /\ pc = "done"
    /\ Len(arg.listdir) = 4
    /\ arg.listdir[1] = <<"a", ".", "j", "p", "g">>
    /\ arg.fault[arg.listdir[1]] = "open"
    /\ arg.listdir[4] = <<"B", ".", "J", "P", "G">>
    /\ ret.processed_count = 1
    /\ ret.error_count = 1
    /\ Len(trace) = 2

=============================================================================
